---- MODULE Spec2Model ----
(***************************************************************************)
(* Coordinator cluster-membership core (CoordinatorServerList.cc).         *)
(*                                                                         *)
(* The server list, its counters, the cluster version, the pending update  *)
(* and the queue of committed updates are guarded by one mutex; every      *)
(* public operation runs under it and is one action here.  The background  *)
(* updater (updateLoop) takes the mutex once per call of                   *)
(* updateEntryVersion / loadNextUpdate / the idle wait, so each of those   *)
(* is one action of the updater.                                           *)
(*                                                                         *)
(* A ServerId is <<index, generation>>.  A Tub<Entry> is a sequence of     *)
(* length 0 (empty) or 1.  serverList[i + 1] is the slot of index i.       *)
(* The service locator and the read speed are opaque payload on which no   *)
(* branch depends; they are not carried.  The recovery blob is 0 (the      *)
(* empty blob of the constructor) or a value a caller has set.  The        *)
(* durable log answers an append with an entry id.                         *)
(***************************************************************************)
EXTENDS Integers, Sequences, FiniteSets, TLC

\* ---------------------------------------------------------------- bounds
\* Largest slot index generateUniqueId may hand out in the model.
MaxIndex == 2
\* Largest generation number generateUniqueId may hand out in the model.
MaxGeneration == 2
\* Largest cluster version the model commits.
MaxVersion == 2
\* Largest cluster version the model commits when only ids are generated,
\* added and removed.
IdsMaxVersion == 3
\* Largest slot index and largest cluster version when replication groups
\* are formed.
GroupMaxIndex == 6
GroupMaxVersion == 5
BackupsMaxVersion == 6
\* Largest cluster version the model commits while the tracker events are
\* followed.
TrackerMaxVersion == 3
\* Largest cluster version the model commits while recovery blobs are set,
\* and largest entry id the durable log hands out.
RecoveryInfoMaxVersion == 3
MaxEntryId == 2
\* The hash table: the number of keys, spread over two tables; the number
\* of overwrites and successful removes; the largest number of buckets asked
\* for; the widths in bits of a pointer, of the secondary hash and of the
\* part of a key's hash that selects the bucket.
NumKeys == 10
MaxChanges == 1
MaxBuckets == 2
PointerBits == 5
HashBits == 2
BucketBits == 2
\* Largest cluster version at which the model enlists a server while the
\* updater is halted.
HaltMaxVersion == 1
\* Largest cluster version the model commits while the updater is halted
\* and keeps running.
HaltFairMaxVersion == 1
RecoverMaxVersion == 3
StartMaxVersion == 1
SlotsMaxVersion == 3
MembersMaxVersion == 2
\* Largest cluster version the model commits while the updater runs.
UpdaterMaxVersion == 2
\* Largest cluster version the model commits in the fair specification.
FairMaxVersion == 2
\* Number of update slots the updater thread starts with (the value of
\* concurrentRPCs when updateLoop begins: 5 after the constructor, one less
\* after every restart of an updater that went idle).
InitialSlots == 2
\* The same for the fair specification: the updater has gone idle often
\* enough to be left with one slot, and has to expand the pool again.
FairSlots == 1

\* ------------------------------------------------------- program constants
\* First generation number of a fresh slot (spec.md 3.1, "starts at 1").
FirstGeneration == 1
\* Replication group size (createReplicationGroup, numReplicas).
numReplicas == 3
\* Initial number of update slots (constructor, concurrentRPCs(5)).
InitialConcurrentRPCs == 5

MASTER == "MASTER"
BACKUP == "BACKUP"
MEMBERSHIP == "MEMBERSHIP"
PING == "PING"
ADMIN == "ADMIN"

UP == "UP"
CRASHED == "CRASHED"
DOWN == "DOWN"

FULL_LIST == "FULL_LIST"
UPDATE == "UPDATE"

SERVER_ADDED == "SERVER_ADDED"
SERVER_CRASHED == "SERVER_CRASHED"
SERVER_REMOVED == "SERVER_REMOVED"

\* The invalid ServerId (default-constructed ServerId()).
InvalidId == <<0, 0>>

VARIABLES
    serverList,         \* vector of [nextGenerationNumber, entry]
    numberOfMasters,    \* uint32; a negative value stands for a wrapped one
    numberOfBackups,    \* uint32; a negative value stands for a wrapped one
    version,            \* cluster version
    update,             \* pending delta: sequence of serialized entries
    updates,            \* queue of committed updates
    lastScan,           \* [noUpdatesFound, searchIndex, minVersion]
    nextReplicationId,
    stopUpdater,
    thread,             \* TRUE iff the updater thread object exists
    hasUpdatesOrStop,   \* condition variable: set of waiting threads
    listUpToDate,       \* condition variable: set of waiting threads
    updateSlots,        \* updater: sequence of UpdateSlot
    inUse,              \* updater: list of indexes into updateSlots
    free,               \* updater: list of indexes into updateSlots
    concurrentRPCs,
    sweep,              \* updater position: [pc, it, liveRpcs, lastFree,
                        \* ordered]; ordered is FALSE while the updater has
                        \* not taken the mutex since stopUpdater was set
    rpcTimeoutNs,       \* 0 = infinite timeout
    syncPc,             \* position of each caller of sync() or haltUpdater()
    issued,             \* history: ids returned by generateUniqueId so far
    removed,            \* history: ids whose entry remove destroyed so far
    lastOp,             \* history: the last public operation and its result
    committedLists,     \* history: the MASTER/BACKUP entries of the list
                        \* right after the commit of each version
    memberLists,        \* history: for each server that acknowledged a
                        \* payload, the version of the last one and the list
                        \* the server holds after applying them in order
    ht,                 \* hash table: [numBuckets, lines]; lines holds the
                        \* bucket cache lines, then the overflow cache lines
    htOp,               \* history: the last hash table operation, its
                        \* result, and how many operations of each kind ran
    testEntry           \* a hash table entry on its own: its word, the last
                        \* operation on it, its arguments, whether it threw

cmmVars == <<serverList, numberOfMasters, numberOfBackups, version, update,
             updates, lastScan, nextReplicationId, hasUpdatesOrStop,
             listUpToDate, committedLists, memberLists>>
updaterVars == <<updateSlots, inUse, free, concurrentRPCs, sweep, stopUpdater,
                 thread, rpcTimeoutNs>>
histVars == <<issued, removed, lastOp>>
htVars == <<ht, htOp, testEntry>>
vars == <<cmmVars, updaterVars, syncPc, histVars, htVars>>

\* ------------------------------------------------------------ small helpers
\* F(e), with e evaluated once.
Value(F(_), e) == CHOOSE r \in {F(x) : x \in {e}} : TRUE

RECURSIVE SeqToSet(_)
SeqToSet(s) == IF s = <<>> THEN {} ELSE {Head(s)} \cup SeqToSet(Tail(s))

\* vector::resize(n) on the slot vector: new slots are default-constructed.
EmptySlot == [nextGenerationNumber |-> FirstGeneration, entry |-> <<>>]

RECURSIVE Resize(_, _)
Resize(list, n) ==
    IF Len(list) >= n THEN list ELSE Resize(Append(list, EmptySlot), n)

\* Entry::Entry(serverId, serviceLocator, services)
NewEntry(id, services) ==
    [serverId |-> id, services |-> services, status |-> UP,
     replicationId |-> 0, serverListVersion |-> 0, isBeingUpdated |-> 0,
     masterRecoveryInfo |-> 0, serverUpdateLogId |-> 0]

\* ServerDetails::isMaster / isBackup: the service is offered and the server
\* is up.
isMaster(e) == e.status = UP /\ MASTER \in e.services
isBackup(e) == e.status = UP /\ BACKUP \in e.services

\* Entry::serialize
SerializeEntry(e) ==
    [serverId |-> e.serverId, services |-> e.services, status |-> e.status,
     replicationId |-> e.replicationId]

\* What a list of serialized entries says about the servers that offer
\* MASTER or BACKUP: their id, status and replication id.
ListView(entries) ==
    {<<e.serverId, e.status, e.replicationId>> :
        e \in {x \in entries : x.services \cap {MASTER, BACKUP} # {}}}

\* The entries of the slot vector, serialized.
EntriesOf(list) ==
    {SerializeEntry(list[i].entry[1]) :
        i \in {j \in 1..Len(list) : list[j].entry # <<>>}}

\* The CMM fields as one record, so that the helpers that run under the
\* mutex compose; threw is set when a ServerListException propagates,
\* events are the tracker changes enqueued, recoveries the entries handed
\* to startMasterRecovery, commits counts the calls of commitUpdate and
\* committed is the pending delta the last of them found; appends are the
\* records SetMasterRecoveryInfo appended to the durable log and invalidates
\* the lists of entry ids it asked the log to invalidate.
CSL ==
    [serverList |-> serverList, numberOfMasters |-> numberOfMasters,
     numberOfBackups |-> numberOfBackups, version |-> version,
     update |-> update, updates |-> updates, lastScan |-> lastScan,
     nextReplicationId |-> nextReplicationId,
     hasUpdatesOrStop |-> hasUpdatesOrStop, listUpToDate |-> listUpToDate,
     committedLists |-> committedLists, memberLists |-> memberLists,
     threw |-> FALSE, events |-> <<>>, recoveries |-> <<>>,
     commits |-> 0, committed |-> <<>>, appends |-> <<>>,
     invalidates |-> <<>>]

\* Slot of an index; only used for index < size.
SlotOf(s, index) == s.serverList[index + 1]
Size(s) == Len(s.serverList)

\* CoordinatorServerList::iget(ServerId): TRUE iff the id is in the list.
iget(s, id) ==
    /\ id[1] < Size(s)
    /\ SlotOf(s, id[1]).entry # <<>>
    /\ SlotOf(s, id[1]).entry[1].serverId = id

EntryOf(s, id) == SlotOf(s, id[1]).entry[1]

\* ------------------------------------------------------ lifecycle helpers
\* CoordinatorServerList::firstFreeIndex: the index chosen.
RECURSIVE firstFreeScan(_, _)
firstFreeScan(s, index) ==
    IF index < Size(s) /\ SlotOf(s, index).entry # <<>>
    THEN firstFreeScan(s, index + 1)
    ELSE index

firstFreeIndex_End(s) == IF Size(s) = 0 THEN 1 ELSE Size(s)

firstFreeIndex(s) == firstFreeScan(s, 1)

\* CoordinatorServerList::generateUniqueId(Lock&): result is
\* [s |-> new state, id |-> the id returned].
generateUniqueId_(s) ==
    LET index == firstFreeIndex(s)
        s1 == IF index >= Size(s)
              THEN [s EXCEPT !.serverList = Resize(@, index + 1)]
              ELSE s
        gen == SlotOf(s1, index).nextGenerationNumber
        id == <<index, gen>>
    IN [s |-> [s1 EXCEPT !.serverList[index + 1] =
                    [nextGenerationNumber |-> gen + 1,
                     entry |-> <<NewEntry(id, {})>>]],
        id |-> id]

\* CoordinatorServerList::add(Lock&, ...)
addNextGeneration_Same(id) == id[2]

addNextGeneration(id) == id[2] + 1

add_(s, id, services) ==
    LET index == id[1]
        s1 == IF index >= Size(s)
              THEN [s EXCEPT !.serverList = Resize(@, index + 1)]
              ELSE s
        e == NewEntry(id, services)
    IN [s1 EXCEPT
          !.serverList[index + 1] =
              [nextGenerationNumber |-> addNextGeneration(id),
               entry |-> <<e>>],
          !.numberOfMasters = IF MASTER \in services THEN @ + 1 ELSE @,
          !.numberOfBackups = IF BACKUP \in services THEN @ + 1 ELSE @,
          !.update = Append(@, SerializeEntry(e)),
          !.events = Append(@, <<SERVER_ADDED, id>>)]

\* The test crashed and remove start with: the id is not in the list.
unknownServer_AnyGeneration(s, id) ==
    id[1] >= Size(s) \/ SlotOf(s, id[1]).entry = <<>>

unknownServer(s, id) ==
    \/ id[1] >= Size(s)
    \/ SlotOf(s, id[1]).entry = <<>>
    \/ SlotOf(s, id[1]).entry[1].serverId # id

\* CoordinatorServerList::crashed(const Lock&, ServerId)
crashedCountMasters(e, n) == IF isMaster(e) THEN n - 1 ELSE n

crashed_Unrecorded(s, id) ==
    IF unknownServer(s, id) THEN [s EXCEPT !.threw = TRUE]
    ELSE LET e == EntryOf(s, id) IN
         IF e.status = CRASHED THEN s
         ELSE [s EXCEPT
                 !.serverList[id[1] + 1].entry = <<[e EXCEPT
                                                      !.status = CRASHED]>>,
                 !.numberOfMasters = crashedCountMasters(e, @),
                 !.numberOfBackups = IF isBackup(e) THEN @ - 1 ELSE @,
                 !.events = Append(@, <<SERVER_CRASHED, id>>)]

crashed_(s, id) ==
    IF unknownServer(s, id) THEN [s EXCEPT !.threw = TRUE]
    ELSE LET e == EntryOf(s, id) IN
         IF e.status = CRASHED THEN s
         ELSE LET e1 == [e EXCEPT !.status = CRASHED] IN
              [s EXCEPT
                 !.serverList[id[1] + 1].entry = <<e1>>,
                 !.numberOfMasters = crashedCountMasters(e, @),
                 !.numberOfBackups = IF isBackup(e) THEN @ - 1 ELSE @,
                 !.update = Append(@, SerializeEntry(e1)),
                 !.events = Append(@, <<SERVER_CRASHED, id>>)]

\* CoordinatorServerList::remove(Lock&, ServerId)
remove_Uncrashed(s, id) ==
    IF unknownServer(s, id) THEN [s EXCEPT !.threw = TRUE]
    ELSE LET e1 == [EntryOf(s, id) EXCEPT !.status = DOWN]
         IN [s EXCEPT
               !.serverList[id[1] + 1].entry = <<>>,
               !.update = Append(@, SerializeEntry(e1)),
               !.events = Append(@, <<SERVER_REMOVED, id>>)]

remove_(s, id) ==
    IF unknownServer(s, id) THEN [s EXCEPT !.threw = TRUE]
    ELSE LET s1 == crashed_(s, id)
             e1 == [EntryOf(s1, id) EXCEPT !.status = DOWN]
         IN [s1 EXCEPT
               !.serverList[id[1] + 1].entry = <<>>,
               !.update = Append(@, SerializeEntry(e1)),
               !.events = Append(@, <<SERVER_REMOVED, id>>)]

\* CoordinatorServerList::setReplicationId
setReplicationId(s, id, replicationId) ==
    IF ~iget(s, id) THEN [s EXCEPT !.threw = TRUE]
    ELSE LET e == EntryOf(s, id) IN
         IF e.status # UP THEN s
         ELSE LET e1 == [e EXCEPT !.replicationId = replicationId] IN
              [s EXCEPT !.serverList[id[1] + 1].entry = <<e1>>,
                        !.update = Append(@, SerializeEntry(e1))]

\* CoordinatorServerList::assignReplicationGroup: stops at the first id
\* that is not in the list.
RECURSIVE assignReplicationGroup(_, _, _)
assignReplicationGroup(s, replicationId, group) ==
    IF group = <<>> THEN s
    ELSE IF ~iget(s, Head(group)) THEN s
    ELSE assignReplicationGroup(
             setReplicationId(s, Head(group), replicationId),
             replicationId, Tail(group))

\* createReplicationGroup: the test for a candidate of a new group.
isFreeBackup_Grouped(e) == isBackup(e)

isFreeBackup(e) == isBackup(e) /\ e.replicationId = 0

\* The freeBackups vector of createReplicationGroup, in slot order.
RECURSIVE freeBackupsFrom(_, _)
freeBackupsFrom(s, i) ==
    IF i >= Size(s) THEN <<>>
    ELSE LET t == SlotOf(s, i).entry IN
         IF t # <<>> /\ isFreeBackup(t[1])
         THEN <<t[1].serverId>> \o freeBackupsFrom(s, i + 1)
         ELSE freeBackupsFrom(s, i + 1)

\* CoordinatorServerList::createReplicationGroup: candidates are popped from
\* the back of freeBackups, numReplicas at a time.
RECURSIVE createGroups(_, _)
createGroups(s, freeBackups) ==
    IF Len(freeBackups) < numReplicas THEN s
    ELSE LET n == Len(freeBackups)
             group == [k \in 1..numReplicas |-> freeBackups[n + 1 - k]]
             s1 == assignReplicationGroup(s, s.nextReplicationId, group)
         IN createGroups([s1 EXCEPT !.nextReplicationId = @ + 1],
                         SubSeq(freeBackups, 1, n - numReplicas))

createReplicationGroup_None(s) == s

createReplicationGroup(s) == createGroups(s, freeBackupsFrom(s, 0))

\* CoordinatorServerList::removeReplicationGroup: the group collected so far
\* is re-assigned on every iteration of the scan.
RECURSIVE removeGroupScan(_, _, _, _)
removeGroupScan(s, groupId, i, group) ==
    IF i >= Size(s) THEN s
    ELSE LET t == SlotOf(s, i).entry
             g == IF t # <<>> /\ isBackup(t[1])
                     /\ t[1].replicationId = groupId
                  THEN Append(group, t[1].serverId)
                  ELSE group
             s1 == IF g # <<>> THEN assignReplicationGroup(s, 0, g) ELSE s
         IN removeGroupScan(s1, groupId, i + 1, g)

removeReplicationGroup_Skip(s, groupId) == s

removeReplicationGroup(s, groupId) ==
    IF groupId = 0 THEN s ELSE removeGroupScan(s, groupId, 0, <<>>)

\* CoordinatorServerList::commitUpdate; committed records the pending delta
\* the call found.
NotifyOne(waiters) ==
    IF waiters = {} THEN {} ELSE waiters \ {CHOOSE w \in waiters : TRUE}

commitVersion_Skip(v) == v + 2

commitVersion(v) == v + 1

commitStamp_Old(v, pending) ==
    [version |-> v - 1, type |-> UPDATE, servers |-> pending]

commitStamp(v, pending) ==
    [version |-> v, type |-> UPDATE, servers |-> pending]

\* commitUpdate: `lastScan.noUpdatesFound = false`, the cached result of the
\* last scan is dropped.
commitRescan_Kept(noUpdatesFound) == noUpdatesFound

commitRescan(noUpdatesFound) == FALSE

commitUpdate(s) ==
    IF Len(s.update) = 0
    THEN [s EXCEPT !.commits = @ + 1, !.committed = <<>>]
    ELSE LET v == commitVersion(s.version) IN
         [s EXCEPT
            !.version = v,
            !.updates = Append(@, commitStamp(v, s.update)),
            !.lastScan.noUpdatesFound = commitRescan(@),
            !.hasUpdatesOrStop = NotifyOne(@),
            !.commits = @ + 1,
            !.committed = s.update,
            !.committedLists =
                Append(@, ListView(EntriesOf(s.serverList))),
            !.update = <<>>]

\* ForceServerDown::execute / complete.  The caller has checked iget.
\* removedAtOnce is the test of complete(): a server without MASTER has no
\* recovery that would remove it later.
removedAtOnce_Always(services) == TRUE

removedAtOnce(services) == MASTER \notin services

forceServerDown_NoRecovery(s, id) ==
    LET entry == EntryOf(s, id)
        s1 == crashed_(s, id)
        s2 == IF removedAtOnce(entry.services) THEN remove_(s1, id) ELSE s1
        s4 == removeReplicationGroup(s2, entry.replicationId)
    IN createReplicationGroup(s4)

forceServerDown(s, id) ==
    LET entry == EntryOf(s, id)
        s1 == crashed_(s, id)
        s2 == IF removedAtOnce(entry.services) THEN remove_(s1, id) ELSE s1
        s3 == [s2 EXCEPT !.recoveries = Append(@, entry)]
        s4 == removeReplicationGroup(s3, entry.replicationId)
    IN createReplicationGroup(s4)

\* EnlistServer::execute / complete: [s, id].
enlist_(s, services) ==
    LET g == generateUniqueId_(s)
        s1 == add_(g.s, g.id, services)
        s2 == IF isBackup(EntryOf(s1, g.id))
              THEN createReplicationGroup(s1) ELSE s1
    IN [s |-> s2, id |-> g.id]


\* ------------------------------------------------------------- the updater
\* CoordinatorServerList::isClusterUpToDate
entryOutOfDate_InFlight(e, v) == e.isBeingUpdated > 0

entryOutOfDate(e, v) ==
    e.serverListVersion # v \/ e.isBeingUpdated > 0

RECURSIVE upToDateFrom(_, _)
upToDateFrom(s, i) ==
    IF i >= Size(s) THEN TRUE
    ELSE LET t == SlotOf(s, i).entry IN
         IF t # <<>> /\ MEMBERSHIP \in t[1].services /\ t[1].status = UP
            /\ entryOutOfDate(t[1], s.version)
         THEN FALSE
         ELSE upToDateFrom(s, i + 1)

isClusterUpToDate(s) == upToDateFrom(s, 0)

\* CoordinatorServerList::pruneUpdates
RECURSIVE popUpTo(_, _)
popUpTo(q, v) ==
    IF q # <<>> /\ Head(q).version <= v THEN popUpTo(Tail(q), v) ELSE q

pruneUpdates(s, v) ==
    LET q == popUpTo(s.updates, v) IN
    [s EXCEPT !.updates = q,
              !.listUpToDate = IF q = <<>> THEN {} ELSE @]

\* CoordinatorServerList::hasUpdates: [s |-> state after the scan,
\* r |-> the result].  scanStep is one iteration of the do-while loop.
scanMinVersion_Last(minVersion, entryMinVersion) == entryMinVersion

scanMinVersion(minVersion, entryMinVersion) ==
    IF minVersion = 0 \/ (entryMinVersion > 0 /\ entryMinVersion < minVersion)
    THEN entryMinVersion ELSE minVersion

\* hasUpdates: `!entry.isBeingUpdated`, no rpc is out for the entry.
noRpcAttached_Always(e) == TRUE

noRpcAttached(e) == e.isBeingUpdated = 0

RECURSIVE scanStep(_, _)
scanStep(s, i) ==
    LET s1 == IF i = 0
              THEN [pruneUpdates(s, s.lastScan.minVersion)
                        EXCEPT !.lastScan.minVersion = 0]
              ELSE s
        t == SlotOf(s1, i).entry
        eligible == t # <<>> /\ MEMBERSHIP \in t[1].services
                    /\ t[1].status = UP
        entryMinVersion == IF t[1].serverListVersion # 0
                           THEN t[1].serverListVersion
                           ELSE t[1].isBeingUpdated
        s2 == IF eligible
              THEN [s1 EXCEPT !.lastScan.minVersion =
                                  scanMinVersion(@, entryMinVersion)]
              ELSE s1
        next == (i + 1) % Size(s)
    IN IF eligible /\ t[1].serverListVersion # s2.version
          /\ noRpcAttached(t[1])
       THEN [s |-> [s2 EXCEPT !.lastScan.searchIndex = i,
                              !.lastScan.noUpdatesFound = FALSE],
             r |-> TRUE]
       ELSE IF next # s.lastScan.searchIndex
       THEN Value(LAMBDA x : scanStep(x, next), s2)
       ELSE [s |-> [s2 EXCEPT !.lastScan.noUpdatesFound = TRUE],
             r |-> FALSE]

hasUpdates(s) ==
    IF s.lastScan.noUpdatesFound \/ Size(s) = 0
    THEN [s |-> s, r |-> FALSE]
    ELSE scanStep(s, s.lastScan.searchIndex)

\* CoordinatorServerList::serialize(lock, protoBuf, services)
RECURSIVE serializeFrom(_, _, _)
serializeFrom(s, services, i) ==
    IF i >= Size(s) THEN <<>>
    ELSE LET t == SlotOf(s, i).entry IN
         IF t # <<>>
            /\ \/ MASTER \in t[1].services /\ MASTER \in services
               \/ BACKUP \in t[1].services /\ BACKUP \in services
         THEN <<SerializeEntry(t[1])>> \o serializeFrom(s, services, i + 1)
         ELSE serializeFrom(s, services, i + 1)

serialize(s, services) ==
    [version |-> s.version, type |-> FULL_LIST,
     servers |-> serializeFrom(s, services, 0)]

\* An UpdateSlot; rpc is a Tub holding the state of the UpdateServerListRpc:
\* "inflight" (isReady() is false), "ok" (ready, wait() returns) or "notUp"
\* (ready, wait() throws ServerNotUpException).  A slot without an rpc is
\* kept in this form: its other fields are not read before they are
\* written again.
EmptyProtobuf == [version |-> 0, type |-> FULL_LIST, servers |-> <<>>]

EmptyUpdateSlot ==
    [rpc |-> <<>>, serverId |-> InvalidId, originalVersion |-> 0,
     protobuf |-> EmptyProtobuf]

\* CoordinatorServerList::loadNextUpdate: [s, r, slot, failed]; failed is
\* set when an assertion fails or updates.at() is out of range (the offset
\* is unsigned, so a target below the head is out of range as well).
deltaTarget_Same(listVersion) == listVersion

deltaTarget(listVersion) == listVersion + 1

loadFound(h) ==
    IF ~h.r
    THEN [s |-> h.s, r |-> FALSE, slot |-> EmptyUpdateSlot, failed |-> FALSE]
    ELSE
    LET s1 == h.s
        index == s1.lastScan.searchIndex
        entry == SlotOf(s1, index).entry[1]
        s2 == [s1 EXCEPT !.lastScan.searchIndex = (index + 1) % Size(s1)]
        base == [rpc |-> <<"inflight">>, serverId |-> entry.serverId,
                 originalVersion |-> entry.serverListVersion,
                 protobuf |-> EmptyProtobuf]
    IN IF entry.serverListVersion = 0
       THEN [s |-> [s2 EXCEPT !.serverList[index + 1].entry[1].isBeingUpdated
                                  = s2.version],
             r |-> TRUE,
             slot |-> [base EXCEPT
                          !.protobuf = serialize(s2, {MASTER, BACKUP})],
             failed |-> FALSE]
       ELSE
       LET head == IF s2.updates = <<>> THEN 0 ELSE Head(s2.updates).version
           targetVersion == deltaTarget(entry.serverListVersion)
           offset == targetVersion - head
           bad == \/ s2.updates = <<>>
                  \/ head > s2.version
                  \/ s2.updates[Len(s2.updates)].version < s2.version
                  \/ offset < 0
                  \/ offset >= Len(s2.updates)
       IN IF bad
          THEN [s |-> s2, r |-> FALSE, slot |-> EmptyUpdateSlot,
                failed |-> TRUE]
          ELSE [s |-> [s2 EXCEPT
                          !.serverList[index + 1].entry[1].isBeingUpdated
                              = targetVersion],
                r |-> TRUE,
                slot |-> [base EXCEPT !.protobuf = s2.updates[offset + 1]],
                failed |-> FALSE]

loadNextUpdate(s) == Value(loadFound, hasUpdates(s))

\* CoordinatorServerList::updateEntryVersion; ackNeedsRescan is its test
\* `version < this->version`.
ackNeedsRescan_Never(v, current) == FALSE

ackNeedsRescan(v, current) == v < current

updateEntryVersion(s, id, v) ==
    IF ~iget(s, id) THEN s
    ELSE [s EXCEPT
            !.serverList[id[1] + 1].entry[1].serverListVersion = v,
            !.serverList[id[1] + 1].entry[1].isBeingUpdated = 0,
            !.lastScan.noUpdatesFound =
                IF ackNeedsRescan(v, s.version) THEN FALSE ELSE @]


\* ----------------------------------------------------------------- actions
\* The CMM fields take the values of the record s.
Apply(state) ==
    \E s \in {state} :
    /\ serverList' = s.serverList
    /\ numberOfMasters' = s.numberOfMasters
    /\ numberOfBackups' = s.numberOfBackups
    /\ version' = s.version
    /\ update' = s.update
    /\ updates' = s.updates
    /\ lastScan' = s.lastScan
    /\ nextReplicationId' = s.nextReplicationId
    /\ hasUpdatesOrStop' = s.hasUpdatesOrStop
    /\ listUpToDate' = s.listUpToDate
    /\ committedLists' = s.committedLists
    /\ memberLists' = s.memberLists

\* What the history variable lastOp records of a public operation.
OpRecord(op, arg, services, ret, s, before) ==
    [op |-> op, arg |-> arg, services |-> services, ret |-> ret,
     threw |-> s.threw, commits |-> s.commits, committed |-> s.committed,
     events |-> s.events, recoveries |-> s.recoveries, before |-> before,
     appends |-> s.appends, invalidates |-> s.invalidates]

\* The ids of the SERVER_REMOVED events of an operation.
RemovedBy(s) ==
    {s.events[k][2] : k \in {j \in 1..Len(s.events) :
                                 s.events[j][1] = SERVER_REMOVED}}

NoOp == [op |-> "none", arg |-> InvalidId, services |-> {}, ret |-> InvalidId,
         threw |-> FALSE, commits |-> 0, committed |-> <<>>,
         events |-> <<>>, recoveries |-> <<>>, before |-> <<>>,
         appends |-> <<>>, invalidates |-> <<>>]

\* The entry an id names, as a Tub (empty when the id is not in the list).
Lookup(s, id) == IF iget(s, id) THEN <<EntryOf(s, id)>> ELSE <<>>

\* CoordinatorServerList::generateUniqueId()
GenerateUniqueId ==
    LET g == generateUniqueId_(CSL) IN
    /\ Apply(g.s)
    /\ issued' = issued \cup {g.id}
    /\ lastOp' = OpRecord("generateUniqueId", InvalidId, {}, g.id, g.s, <<>>)
    /\ UNCHANGED <<updaterVars, htVars, syncPc, removed>>

\* CoordinatorServerList::add(serverId, ...)
Add(id, services) ==
    LET s == commitUpdate(add_(CSL, id, services)) IN
    /\ Apply(s)
    /\ lastOp' = OpRecord("add", id, services, id, s, Lookup(CSL, id))
    /\ UNCHANGED <<updaterVars, htVars, syncPc, issued, removed>>

\* CoordinatorServerList::crashed(serverId): the exception leaves before
\* commitUpdate.
Crashed(id) ==
    LET s1 == crashed_(CSL, id)
        s == IF s1.threw THEN s1 ELSE commitUpdate(s1)
    IN
    /\ Apply(s)
    /\ lastOp' = OpRecord("crashed", id, {}, id, s, Lookup(CSL, id))
    /\ UNCHANGED <<updaterVars, htVars, syncPc, issued, removed>>

\* CoordinatorServerList::remove(serverId)
Remove(id) ==
    LET s1 == remove_(CSL, id)
        s == IF s1.threw THEN s1 ELSE commitUpdate(s1)
    IN
    /\ Apply(s)
    /\ lastOp' = OpRecord("remove", id, {}, id, s, Lookup(CSL, id))
    /\ removed' = removed \cup RemovedBy(s)
    /\ UNCHANGED <<updaterVars, htVars, syncPc, issued>>

\* CoordinatorServerList::enlistServer
EnlistServer(replacesId, services) ==
    LET s1 == IF iget(CSL, replacesId)
              THEN forceServerDown(CSL, replacesId) ELSE CSL
        e == enlist_(s1, services)
        s == commitUpdate(e.s)
    IN
    /\ Apply(s)
    /\ issued' = issued \cup {e.id}
    /\ lastOp' = OpRecord("enlistServer", replacesId, services, e.id, s,
                          Lookup(CSL, replacesId))
    /\ removed' = removed \cup RemovedBy(s)
    /\ UNCHANGED <<updaterVars, htVars, syncPc>>

\* SetMasterRecoveryInfo::complete.  vector<EntryId>(entryId) is the vector
\* of entryId elements, each EntryId() = 0.
invalidatedOnFailure_Record(entryId) == <<entryId>>

invalidatedOnFailure(entryId) == [k \in 1..entryId |-> 0]

setMasterRecoveryInfoComplete(s, id, recoveryInfo, entryId) ==
    IF ~iget(s, id)
    THEN [s EXCEPT !.invalidates = Append(@, invalidatedOnFailure(entryId)),
                   !.threw = TRUE]
    ELSE [s EXCEPT
            !.serverList[id[1] + 1].entry[1].serverUpdateLogId = entryId,
            !.serverList[id[1] + 1].entry[1].masterRecoveryInfo =
                recoveryInfo]

\* SetMasterRecoveryInfo::execute; newEntryId is the id appendProtoBuf
\* returns.
setMasterRecoveryInfoExecute(s, id, recoveryInfo, newEntryId) ==
    LET oldEntryId == EntryOf(s, id).serverUpdateLogId
        invalidates == IF oldEntryId # 0 THEN <<oldEntryId>> ELSE <<>>
        s1 == [s EXCEPT !.appends = Append(@,
                   [entry_type |-> "ServerUpdate", server_id |-> id,
                    master_recovery_info |-> recoveryInfo,
                    invalidates |-> invalidates])]
    IN setMasterRecoveryInfoComplete(s1, id, recoveryInfo, newEntryId)

\* CoordinatorServerList::setMasterRecoveryInfo
SetMasterRecoveryInfo(id, recoveryInfo, newEntryId) ==
    LET s == IF ~iget(CSL, id) THEN [CSL EXCEPT !.threw = TRUE]
             ELSE setMasterRecoveryInfoExecute(
                      [CSL EXCEPT !.serverList[id[1] + 1].entry[1]
                                       .masterRecoveryInfo = recoveryInfo],
                      id, recoveryInfo, newEntryId)
    IN
    /\ Apply(s)
    /\ lastOp' = OpRecord("setMasterRecoveryInfo", id, {}, <<newEntryId, 0>>,
                          s, Lookup(CSL, id))
    /\ UNCHANGED <<updaterVars, htVars, syncPc, issued, removed>>

\* CoordinatorServerList::setMasterRecoveryInfoRecover
SetMasterRecoveryInfoRecover(id, recoveryInfo, entryId) ==
    LET s == setMasterRecoveryInfoComplete(CSL, id, recoveryInfo, entryId) IN
    /\ Apply(s)
    /\ lastOp' = OpRecord("setMasterRecoveryInfoRecover", id, {},
                          <<entryId, 0>>, s, Lookup(CSL, id))
    /\ UNCHANGED <<updaterVars, htVars, syncPc, issued, removed>>

\* CoordinatorServerList::hintServerDown; failed is the verdict of
\* verifyServerFailure.  ret is <<1, 1>> for true and <<0, 0>> for false.
True == <<1, 1>>
False == <<0, 0>>

\* hintServerDown goes on to forceServerDown: the id names an UP entry and
\* verifyServerFailure has returned true.
hintVerified_Unchecked(known, failed) == known

hintVerified(known, failed) == known /\ failed

HintServerDown(id, failed) ==
    LET known == iget(CSL, id) /\ EntryOf(CSL, id).status = UP
        s == IF hintVerified(known, failed)
             THEN commitUpdate(forceServerDown(CSL, id)) ELSE CSL
        ret == IF known /\ ~failed THEN False ELSE True
    IN
    /\ Apply(s)
    /\ lastOp' = OpRecord("hintServerDown", id, {}, ret, s, Lookup(CSL, id))
    /\ removed' = removed \cup RemovedBy(s)
    /\ UNCHANGED <<updaterVars, htVars, syncPc, issued>>


\* ------------------------------------------------------ updater actions
Updater == "updater"
SyncThreads == {"sync1"}
HaltThreads == {"halt1"}

\* The update slot the iterator `it` of the sweep points at.
SlotIndex == inUse[sweep.it]
CurrentSlot == updateSlots[SlotIndex + 1]

\* updateLoop: the test of `while (!stopUpdater)` and the start of a sweep.
\* The flag is read without the mutex: until the updater takes the mutex
\* after haltUpdater has set the flag, the read may still yield false.
stopUpdaterRead_Never(flag, ordered) == {FALSE}

stopUpdaterRead(flag, ordered) == IF ordered THEN {flag} ELSE {flag, FALSE}

UpdaterLoop ==
    /\ thread
    /\ sweep.pc = "loop"
    /\ \E stop \in stopUpdaterRead(stopUpdater, sweep.ordered) :
           sweep' = IF stop
                    THEN [sweep EXCEPT !.pc = "cancel", !.it = 1]
                    ELSE [sweep EXCEPT !.pc = "dispatch", !.it = 1,
                                       !.liveRpcs = 0, !.lastFree = 0]
    /\ UNCHANGED <<cmmVars, updateSlots, inUse, free, concurrentRPCs,
                   stopUpdater, thread, rpcTimeoutNs, htVars, syncPc,
                   histVars>>

\* dispatchRpc, first half: the slot holds an rpc.  A ready rpc ends and the
\* entry's version is set; an rpc that is not ready either times out (only
\* with a nonzero rpcTimeoutNs) or stays in flight.
ackedVersion_Payload(slot) == slot.protobuf.version

ackedVersion(slot) ==
    IF slot.rpc[1] = "ok" THEN slot.protobuf.version
    ELSE slot.originalVersion

\* What the server at the other end of the rpc does with a payload before
\* it acknowledges it: a FULL_LIST replaces its list; the entries of an UPDATE
\* are applied in order, an entry with status DOWN deleting the id and any
\* other entry replacing what the list holds for the id.
RECURSIVE applyEntries(_, _)
applyEntries(list, entries) ==
    IF entries = <<>> THEN list
    ELSE LET e == Head(entries)
             others == {x \in list : x.serverId # e.serverId}
         IN applyEntries(IF e.status = DOWN THEN others
                         ELSE others \cup {e},
                         Tail(entries))

applyPayload(list, protobuf) ==
    IF protobuf.type = FULL_LIST
    THEN applyEntries({}, protobuf.servers)
    ELSE applyEntries(list, protobuf.servers)

\* The history of the lists the servers hold, after the rpc of the slot
\* was acknowledged.
acknowledged(s, slot) ==
    IF slot.rpc[1] # "ok" THEN s
    ELSE LET id == slot.serverId
             held == IF id \in DOMAIN s.memberLists
                     THEN s.memberLists[id].servers ELSE {}
             now == [version |-> slot.protobuf.version,
                     servers |-> applyPayload(held, slot.protobuf)]
         IN [s EXCEPT !.memberLists =
                [x \in DOMAIN @ \cup {id} |->
                    IF x = id THEN now ELSE @[x]]]

UpdaterCheckRpc(timedOut) ==
    /\ thread
    /\ sweep.pc = "dispatch"
    /\ sweep.it <= Len(inUse)
    /\ CurrentSlot.rpc # <<>>
    /\ timedOut => (CurrentSlot.rpc[1] = "inflight" /\ rpcTimeoutNs # 0)
    /\ IF CurrentSlot.rpc[1] # "inflight" \/ timedOut
       THEN /\ Apply(acknowledged(
                       updateEntryVersion(CSL, CurrentSlot.serverId,
                                          ackedVersion(CurrentSlot)),
                       CurrentSlot))
            /\ updateSlots' = [updateSlots EXCEPT ![SlotIndex + 1] =
                                   EmptyUpdateSlot]
            /\ sweep' = [sweep EXCEPT !.pc = "load", !.ordered = TRUE]
       ELSE /\ sweep' = [sweep EXCEPT !.it = @ + 1, !.liveRpcs = @ + 1]
            /\ UNCHANGED <<cmmVars, updateSlots>>
    /\ UNCHANGED <<inUse, free, concurrentRPCs, stopUpdater, thread,
                   rpcTimeoutNs, htVars, syncPc, histVars>>

\* dispatchRpc, second half: the slot holds no rpc; loadNextUpdate.
UpdaterLoad ==
    /\ thread
    /\ \/ sweep.pc = "load"
       \/ /\ sweep.pc = "dispatch"
          /\ sweep.it <= Len(inUse)
          /\ CurrentSlot.rpc = <<>>
    /\ \E l \in {loadNextUpdate(CSL)} :
       /\ Apply(l.s)
       /\ IF l.failed
          THEN /\ sweep' = [sweep EXCEPT !.pc = "fatal", !.ordered = TRUE]
               /\ UNCHANGED updateSlots
          ELSE IF l.r
          THEN /\ updateSlots' = [updateSlots EXCEPT ![SlotIndex + 1] = l.slot]
               /\ sweep' = [sweep EXCEPT !.pc = "dispatch", !.it = @ + 1,
                                         !.liveRpcs = @ + 1,
                                         !.ordered = TRUE]
          ELSE /\ sweep' = [sweep EXCEPT !.pc = "dispatch", !.it = @ + 1,
                                         !.lastFree = sweep.it,
                                         !.ordered = TRUE]
               /\ UNCHANGED updateSlots
    /\ UNCHANGED <<inUse, free, concurrentRPCs, stopUpdater, thread,
                   rpcTimeoutNs, htVars, syncPc, histVars>>

\* `inUse.size() < liveRpcs - 1`: liveRpcs is a uint32_t, so liveRpcs - 1 is
\* 2^32 - 1 when liveRpcs is 0, which every list size of the model is below.
shrinkCondition(size, liveRpcs) ==
    IF liveRpcs = 0 THEN TRUE ELSE size < liveRpcs - 1

RemoveAt(seq, k) == SubSeq(seq, 1, k - 1) \o SubSeq(seq, k + 1, Len(seq))

\* updateLoop: "Expand/Contract slots as necessary", then the test of
\* liveRpcs == 0.
UpdaterResize ==
    /\ thread
    /\ sweep.pc = "dispatch"
    /\ sweep.it > Len(inUse)
    /\ IF Len(inUse) = sweep.liveRpcs /\ sweep.lastFree = 0
       THEN LET slots == IF free = <<>>
                         THEN Append(updateSlots, EmptyUpdateSlot)
                         ELSE updateSlots
                fr == IF free = <<>> THEN <<Len(slots) - 1>> ELSE free
            IN /\ updateSlots' = slots
               /\ concurrentRPCs' = concurrentRPCs + 1
               /\ inUse' = Append(inUse, Head(fr))
               /\ free' = Tail(fr)
       ELSE IF shrinkCondition(Len(inUse), sweep.liveRpcs)
       THEN /\ concurrentRPCs' = concurrentRPCs - 1
            /\ free' = Append(free, inUse[sweep.lastFree])
            /\ inUse' = RemoveAt(inUse, sweep.lastFree)
            /\ UNCHANGED updateSlots
       ELSE UNCHANGED <<updateSlots, concurrentRPCs, inUse, free>>
    /\ sweep' = [sweep EXCEPT
                    !.pc = IF sweep.liveRpcs = 0 THEN "idle" ELSE "loop"]
    /\ UNCHANGED <<cmmVars, stopUpdater, thread, rpcTimeoutNs, htVars, syncPc,
                   histVars>>

\* updateLoop: listUpToDate.notify_all() before the wait for more updates.
idleNotifyAll_None(waiters) == waiters

idleNotifyAll(waiters) == {}

\* updateLoop: the wait for more updates, one evaluation of the condition of
\* `while (!hasUpdates(lock) && !stopUpdater)` under the mutex, by a thread
\* that is not blocked in hasUpdatesOrStop.wait.
UpdaterIdle ==
    /\ thread
    /\ sweep.pc = "idle"
    /\ Updater \notin hasUpdatesOrStop
    /\ \E h \in {hasUpdates(CSL)} :
       IF h.r \/ stopUpdater
       THEN /\ Apply(h.s)
            /\ sweep' = [sweep EXCEPT !.pc = "loop", !.ordered = TRUE]
       ELSE IF ~isClusterUpToDate(h.s)
       THEN /\ Apply(h.s)
            /\ sweep' = [sweep EXCEPT !.pc = "assert", !.ordered = TRUE]
       ELSE /\ Apply([h.s EXCEPT !.listUpToDate = idleNotifyAll(@),
                                 !.hasUpdatesOrStop = @ \cup {Updater}])
            /\ sweep' = [sweep EXCEPT !.ordered = TRUE]
    /\ UNCHANGED <<updateSlots, inUse, free, concurrentRPCs, stopUpdater,
                   thread, rpcTimeoutNs, htVars, syncPc, histVars>>

\* updateLoop: "if (stopUpdater) Stop all Rpcs", one slot of inUse per
\* step (updateEntryVersion takes the mutex); after the last one the thread
\* function returns and its slots are destroyed.
cancelledVersion_Payload(slot) == slot.protobuf.version

cancelledVersion(slot) == slot.originalVersion

UpdaterCancel ==
    /\ thread
    /\ sweep.pc = "cancel"
    /\ IF sweep.it > Len(inUse)
       THEN /\ sweep' = [sweep EXCEPT !.pc = "exited"]
            /\ updateSlots' = <<>>
            /\ inUse' = <<>>
            /\ free' = <<>>
            /\ UNCHANGED cmmVars
       ELSE /\ IF CurrentSlot.rpc # <<>>
               THEN /\ Apply(updateEntryVersion(CSL, CurrentSlot.serverId,
                                                cancelledVersion(CurrentSlot)))
                    /\ updateSlots' = [updateSlots EXCEPT
                                          ![SlotIndex + 1].rpc = <<"cancelled">>]
                    /\ sweep' = [sweep EXCEPT !.it = @ + 1, !.ordered = TRUE]
               ELSE /\ sweep' = [sweep EXCEPT !.it = @ + 1]
                    /\ UNCHANGED <<cmmVars, updateSlots>>
            /\ UNCHANGED <<inUse, free>>
    /\ UNCHANGED <<concurrentRPCs, stopUpdater, thread, rpcTimeoutNs, htVars,
                   syncPc,
                   histVars>>

\* CoordinatorServerList::haltUpdater: the flag is set and the updater
\* notified under the mutex.
HaltSignal(t) ==
    /\ syncPc[t] \in {"idle", "halted"}
    /\ Apply([CSL EXCEPT !.hasUpdatesOrStop = NotifyOne(@)])
    /\ stopUpdater' = TRUE
    /\ sweep' = [sweep EXCEPT !.ordered = FALSE]
    /\ syncPc' = [syncPc EXCEPT ![t] = "join"]
    /\ UNCHANGED <<updateSlots, inUse, free, concurrentRPCs, thread,
                   rpcTimeoutNs, htVars, histVars>>

\* haltUpdater: thread->join() returns once the thread function has
\* returned; the thread is then destroyed.
HaltJoin(t) ==
    /\ syncPc[t] = "join"
    /\ thread => sweep.pc = "exited"
    /\ thread' = FALSE
    /\ syncPc' = [syncPc EXCEPT ![t] = "halted"]
    /\ UNCHANGED <<cmmVars, updateSlots, inUse, free, concurrentRPCs, sweep,
                   stopUpdater, rpcTimeoutNs, htVars, histVars>>

\* The transport: the rpc of an update slot becomes ready.  wait() throws
\* ServerNotUpException only for a target that is not up in the list.
RpcReady(k, outcome) ==
    /\ k \in 1..Len(updateSlots)
    /\ updateSlots[k].rpc = <<"inflight">>
    /\ outcome = "notUp" =>
           ~(iget(CSL, updateSlots[k].serverId)
             /\ EntryOf(CSL, updateSlots[k].serverId).status = UP)
    /\ updateSlots' = [updateSlots EXCEPT ![k].rpc = <<outcome>>]
    /\ UNCHANGED <<cmmVars, inUse, free, concurrentRPCs, sweep, stopUpdater,
                   thread, rpcTimeoutNs, htVars, syncPc, histVars>>

\* CoordinatorServerList::startUpdater, the notification.
startUpdater(s) == [s EXCEPT !.hasUpdatesOrStop = NotifyOne(@)]

\* sync(): the call of startUpdater.  Without a thread the flag is cleared
\* and a thread constructed, whose updateLoop prefills concurrentRPCs slots;
\* with a thread, running or not, only the notification is made.
SyncStart(t) ==
    /\ syncPc[t] \in {"idle", "returned"}
    /\ Apply(startUpdater(CSL))
    /\ syncPc' = [syncPc EXCEPT ![t] = "check"]
    /\ IF thread
       THEN UNCHANGED updaterVars
       ELSE /\ stopUpdater' = FALSE
            /\ thread' = TRUE
            /\ updateSlots' = [k \in 1..concurrentRPCs |-> EmptyUpdateSlot]
            /\ inUse' = [k \in 1..concurrentRPCs |-> k - 1]
            /\ free' = <<>>
            /\ sweep' = [pc |-> "loop", it |-> 1, liveRpcs |-> 0,
                         lastFree |-> 0, ordered |-> TRUE]
            /\ UNCHANGED <<concurrentRPCs, rpcTimeoutNs>>
    /\ UNCHANGED <<htVars, histVars>>

\* sync(): one evaluation of `while (!isClusterUpToDate(lock))` under the
\* mutex, by a caller that is not blocked in listUpToDate.wait.
SyncCheck(t) ==
    /\ syncPc[t] = "check"
    /\ t \notin listUpToDate
    /\ IF isClusterUpToDate(CSL)
       THEN /\ syncPc' = [syncPc EXCEPT ![t] = "returned"]
            /\ UNCHANGED cmmVars
       ELSE /\ Apply([CSL EXCEPT !.listUpToDate = @ \cup {t}])
            /\ UNCHANGED syncPc
    /\ UNCHANGED <<updaterVars, htVars, histVars>>

\* --------------------------------------------------------------- hash table
\* HashTable.h and HashTable.cc are not part of the sources at hand; the
\* table is modelled from spec.md 3.2 and 4.6 and from what HashTableTest.cc
\* calls and expects.  An entry is a packed word (secondary hash, chain flag,
\* pointer) with the widths scaled down; a pointer to a cache line is its
\* index in ht.lines (0 is NULL); a reference is the address of a test
\* object (never 0), and slots are numbered from 0 as in the source.
ENTRIES_PER_CACHE_LINE == 8

seven == ENTRIES_PER_CACHE_LINE - 1

\* The words of an entry: the pointer in the low bits, then the chain flag,
\* then the secondary hash.
ChainBit == 2 ^ PointerBits

pack(hash, chain, ptr) ==
    hash * (2 * ChainBit) + (IF chain THEN ChainBit ELSE 0) + ptr

unpack(word) ==
    [hash |-> word \div (2 * ChainBit),
     chain |-> (word \div ChainBit) % 2 = 1,
     ptr |-> word % ChainBit]

clear == 0

\* The largest pointer an entry holds (0x7fffffffffff at the real width).
MaxPointer == ChainBit - 1

\* Whether pack accepts the pointer: one that needs more bits than the
\* pointer field has is refused.
packFits_Always(ptr) == TRUE

packFits(ptr) == ptr <= MaxPointer

\* Entry::pack as a call: the word afterwards and whether the call threw;
\* a refused call leaves the word as it was.
packCall(value, hash, chain, ptr) ==
    IF packFits(ptr)
    THEN [value |-> pack(hash, chain, ptr), threw |-> FALSE]
    ELSE [value |-> value, threw |-> TRUE]

setReference(hash, reference) == pack(hash, FALSE, reference)

setChainPointer(cl) == pack(0, TRUE, cl)

isAvailable(word) == word = 0

getReference(word) == unpack(word).ptr

getChainPointer(word) ==
    LET ue == unpack(word) IN IF ue.chain THEN ue.ptr ELSE 0

hashMatches(word, hash) ==
    \E ue \in {unpack(word)} : ~ue.chain /\ ue.ptr # 0 /\ ue.hash = hash

\* Entry j of a cache line, and the line with entry j set to a word.
EntryAt(line, j) == line[j + 1]

WithEntry(line, j, word) == [line EXCEPT ![j + 1] = word]

EmptyCacheLine == [j \in 1..ENTRIES_PER_CACHE_LINE |-> clear]

\* The keys of the test objects: (tableId, key), in the order in which the
\* model first inserts them; the test objects, two for each key, and their
\* addresses.
KeyAt(i) == <<(i - 1) % 2, (i - 1) \div 2>>

Keys == {KeyAt(i) : i \in 1..NumKeys}

KeyIndex(key) == key[2] * 2 + key[1] + 1

References == 1..(2 * NumKeys)

ObjectKey(reference) == KeyAt(((reference - 1) % NumKeys) + 1)

\* TestObjectKeyComparer::doesMatch
doesMatch_Always(key, candidate) == TRUE

doesMatch(key, candidate) == key = ObjectKey(candidate)

\* Key::getHash, with the width of the hash scaled down: some keys have the
\* same hash, and most keys fall into the first of two buckets.
BucketSpan == 2 ^ BucketBits

HashSpan == 2 ^ HashBits * BucketSpan

getHash(key) ==
    (2 * (3 * key[2] + 5 * key[1]) + (key[2] \div 4) * key[1]) % HashSpan

\* HashTable::HashTable: the number of buckets is the largest power of two
\* that is not above the number asked for.
RECURSIVE nearestPowerOfTwo(_)
nearestPowerOfTwo(n) == IF n <= 1 THEN 1 ELSE 2 * nearestPowerOfTwo(n \div 2)

HashTable(numBuckets) ==
    [numBuckets |-> nearestPowerOfTwo(numBuckets),
     lines |-> [b \in 1..nearestPowerOfTwo(numBuckets) |-> EmptyCacheLine]]

\* HashTable::findBucket: [bucket, secondaryHash]
findBucket(h, key) ==
    [bucket |-> ((getHash(key) % BucketSpan) % h.numBuckets) + 1,
     secondaryHash |-> getHash(key) \div BucketSpan]

\* HashTable::lookupEntry: <<cache line, entry>> of the first entry along
\* the chain that matches, <<0, 0>> (NULL) when the chain ends.
MinOf(set) == CHOOSE m \in set : \A o \in set : m <= o

MatchingIn(line, secondaryHash, key) ==
    {j \in 0..seven :
        /\ hashMatches(EntryAt(line, j), secondaryHash)
        /\ doesMatch(key, getReference(EntryAt(line, j)))}

\* The cache line that lookupEntry searches after a line without a match.
nextCacheLine_None(line) == 0

nextCacheLine(line) == getChainPointer(EntryAt(line, seven))

RECURSIVE lookupEntry(_, _, _, _)
lookupEntry(h, cl, secondaryHash, key) ==
    IF cl = 0 THEN <<0, 0>>
    ELSE LET matching == MatchingIn(h.lines[cl], secondaryHash, key)
         IN  IF matching # {} THEN <<cl, MinOf(matching)>>
             ELSE lookupEntry(h, nextCacheLine(h.lines[cl]), secondaryHash,
                              key)

findBucketAndLookupEntry(h, key) ==
    lookupEntry(h, findBucket(h, key).bucket,
                findBucket(h, key).secondaryHash, key)

\* HashTable::lookup: [found, reference]
lookup(h, key) ==
    LET e == findBucketAndLookupEntry(h, key)
    IN  IF e = <<0, 0>> THEN [found |-> FALSE, reference |-> 0]
        ELSE [found |-> TRUE,
              reference |-> getReference(EntryAt(h.lines[e[1]], e[2]))]

\* HashTable::remove: [h, ret]
removedWord_Kept(word) == word

removedWord(word) == clear

remove(h, key) ==
    LET e == findBucketAndLookupEntry(h, key)
    IN  IF e = <<0, 0>> THEN [h |-> h, ret |-> FALSE]
        ELSE [h |-> [h EXCEPT !.lines[e[1]] =
                         WithEntry(@, e[2], removedWord(EntryAt(@, e[2])))],
              ret |-> TRUE]

\* HashTable::replace, the insertion of a new key: the word goes to the
\* first available entry along the chain; when the last cache line is full
\* a new one is allocated, gets the entry of the last slot and is chained
\* from that slot.
overflowLine_Empty(last) == EmptyCacheLine

overflowLine(last) == WithEntry(EmptyCacheLine, 0, last)

\* The entry of a cache line that a new key takes: the first available one.
firstAvailable_Last(available) ==
    CHOOSE j \in available : \A k \in available : k <= j

firstAvailable(available) == MinOf(available)

RECURSIVE insertFrom(_, _, _)
insertFrom(h, cl, word) ==
    LET line == h.lines[cl]
        available == {j \in 0..seven : isAvailable(EntryAt(line, j))}
        next == getChainPointer(EntryAt(line, seven))
        allocated == Len(h.lines) + 1
    IN  IF available # {}
        THEN [h EXCEPT !.lines[cl] = WithEntry(@, firstAvailable(available), word)]
        ELSE IF next # 0 THEN insertFrom(h, next, word)
        ELSE insertFrom(
                 [h EXCEPT !.lines =
                     Append([@ EXCEPT ![cl] =
                                 WithEntry(@, seven, setChainPointer(allocated))],
                            overflowLine(EntryAt(line, seven)))],
                 allocated, word)

\* HashTable::replace: [h, ret]; ret tells whether the key was there.
replaceFound_Never(e) == FALSE

replaceFound(e) == e # <<0, 0>>

replace(h, key, reference) ==
    LET b == findBucket(h, key)
        e == lookupEntry(h, b.bucket, b.secondaryHash, key)
        word == setReference(b.secondaryHash, reference)
    IN  IF replaceFound(e)
        THEN [h |-> [h EXCEPT !.lines[e[1]] = WithEntry(@, e[2], word)],
              ret |-> TRUE]
        ELSE [h |-> insertFrom(h, b.bucket, word), ret |-> FALSE]

\* HashTable::forEach: the callbacks made, in order, each <<reference,
\* cookie>>; the value returned is their number.
isStored_Chain(word) == ~isAvailable(word)

isStored(word) == ~isAvailable(word) /\ getChainPointer(word) = 0

RECURSIVE callbacksOfLine(_, _, _)
callbacksOfLine(line, j, cookie) ==
    IF j > seven THEN <<>>
    ELSE (IF isStored(EntryAt(line, j))
          THEN <<<<getReference(EntryAt(line, j)), cookie>>>>
          ELSE <<>>) \o callbacksOfLine(line, j + 1, cookie)

RECURSIVE callbacksOfChain(_, _, _)
callbacksOfChain(h, cl, cookie) ==
    IF cl = 0 THEN <<>>
    ELSE callbacksOfLine(h.lines[cl], 0, cookie)
         \o callbacksOfChain(h, getChainPointer(EntryAt(h.lines[cl], seven)),
                             cookie)

RECURSIVE callbacksFrom(_, _, _)
callbacksFrom(h, bucket, cookie) ==
    IF bucket > h.numBuckets THEN <<>>
    ELSE callbacksOfChain(h, bucket, cookie)
         \o callbacksFrom(h, bucket + 1, cookie)

\* The cookie of the forEach test.
Cookie == 57

forEach(h, cookie) ==
    [callbacks |-> callbacksFrom(h, 1, cookie),
     ret |-> Len(callbacksFrom(h, 1, cookie))]

\* What the history variable htOp records: the last operation and its
\* result, the number of keys inserted so far (seen) and the number of
\* overwrites and successful removes so far (changes).
NoHtOp == [op |-> "none", ret |-> FALSE, seen |-> 0, changes |-> 0]

\* An entry before any call on it.
NoEntryOp(value) ==
    [value |-> value, op |-> "none", hash |-> 0, chain |-> FALSE, ptr |-> 0,
     threw |-> FALSE]

\* A call of pack on the entry by the tests.
Pack(hash, chain, ptr) ==
    /\ \E r \in {packCall(testEntry.value, hash, chain, ptr)} :
          testEntry' = [value |-> r.value, op |-> "pack", hash |-> hash,
                        chain |-> chain, ptr |-> ptr, threw |-> r.threw]
    /\ UNCHANGED <<cmmVars, updaterVars, syncPc, histVars, ht, htOp>>

\* A call of clear on the entry by the tests.
Clear ==
    /\ testEntry' = [NoEntryOp(clear) EXCEPT !.op = "clear"]
    /\ UNCHANGED <<cmmVars, updaterVars, syncPc, histVars, ht, htOp>>

\* A call of replace by the tests: the reference is the address of an
\* object with that key.
Replace(key, reference) ==
    /\ doesMatch(key, reference)
    /\ \E r \in {replace(ht, key, reference)} :
          /\ ht' = r.h
          /\ htOp' = [op |-> "replace", ret |-> r.ret,
                      seen |-> IF KeyIndex(key) > htOp.seen
                               THEN KeyIndex(key) ELSE htOp.seen,
                      changes |-> htOp.changes + (IF r.ret THEN 1 ELSE 0)]
    /\ UNCHANGED <<cmmVars, updaterVars, syncPc, histVars, testEntry>>

\* A call of remove by the tests.
HtRemove(key) ==
    /\ \E r \in {remove(ht, key)} :
          /\ ht' = r.h
          /\ htOp' = [htOp EXCEPT !.op = "remove", !.ret = r.ret,
                                  !.changes = @ + (IF r.ret THEN 1 ELSE 0)]
    /\ UNCHANGED <<cmmVars, updaterVars, syncPc, histVars, testEntry>>

\* ------------------------------------------------------------ specifications
\* The state after the constructor: an empty list, version 0, and the updater
\* thread started with concurrentRPCs slots in use.
InitCMM(slots) ==
    /\ serverList = <<>>
    /\ numberOfMasters = 0
    /\ numberOfBackups = 0
    /\ version = 0
    /\ update = <<>>
    /\ updates = <<>>
    /\ lastScan = [noUpdatesFound |-> FALSE, searchIndex |-> 0,
                   minVersion |-> 0]
    /\ nextReplicationId = 1
    /\ stopUpdater = FALSE
    /\ thread = TRUE
    /\ hasUpdatesOrStop = {}
    /\ listUpToDate = {}
    /\ committedLists = <<>>
    /\ memberLists = <<>>
    /\ concurrentRPCs = slots
    /\ updateSlots = [k \in 1..slots |-> EmptyUpdateSlot]
    /\ inUse = [k \in 1..slots |-> k - 1]
    /\ free = <<>>
    /\ sweep = [pc |-> "loop", it |-> 1, liveRpcs |-> 0, lastFree |-> 0,
                ordered |-> TRUE]
    /\ syncPc = [t \in SyncThreads \cup HaltThreads |-> "idle"]
    /\ issued = {}
    /\ removed = {}
    /\ lastOp = NoOp

InitWith(slots) ==
    /\ InitCMM(slots)
    /\ ht = HashTable(1)
    /\ htOp = NoHtOp
    /\ testEntry = NoEntryOp(clear)

Init == InitWith(InitialConcurrentRPCs) /\ rpcTimeoutNs = 0

Ids == (1..MaxIndex) \X (1..MaxGeneration)

\* The bounds of the model: the id an operation has handed out stays within
\* Ids, and no operation is started at the last version.
WithinBounds == lastOp'.ret \in Ids
MayCommitTo(bound) == version < bound
MayCommit == MayCommitTo(MaxVersion)

\* An id whose index is beyond the slot vector in every state of the model.
BeyondId == <<MaxIndex + 1, FirstGeneration>>

\* The lifecycle operations of the list, called with any mix of MASTER and
\* BACKUP and with the ids that generateUniqueId has returned, in the list
\* or not; crashed and remove are also called with an id beyond the slot
\* vector.
ListServices == {{MASTER}, {BACKUP}, {MASTER, BACKUP}}

Next ==
    \/ GenerateUniqueId /\ WithinBounds
    \/ \E id \in issued, sv \in ListServices : MayCommit /\ Add(id, sv)
    \/ \E id \in issued \cup {BeyondId} : MayCommit /\ Crashed(id)
    \/ \E id \in issued \cup {BeyondId} : MayCommit /\ Remove(id)
    \/ \E id \in issued \cup {InvalidId}, sv \in ListServices :
           MayCommit /\ EnlistServer(id, sv) /\ WithinBounds
    \/ \E id \in issued, failed \in BOOLEAN :
           MayCommit /\ HintServerDown(id, failed)

Spec == Init /\ [][Next]_vars

\* The generation of ids alone, over more versions: generateUniqueId, and add
\* and remove called with ids that generateUniqueId returned.
NextIds ==
    \/ GenerateUniqueId /\ WithinBounds
    \/ \E id \in issued : MayCommitTo(IdsMaxVersion) /\ Add(id, {MASTER})
    \/ \E id \in issued : MayCommitTo(IdsMaxVersion) /\ Remove(id)

SpecIds == Init /\ [][NextIds]_vars


\* Replication groups: servers offering any mix of MASTER and BACKUP enlist,
\* a backup enlists in place of an UP server of the list, servers are
\* reported down with a verified failure, and they are removed at the end of
\* their recovery.
GroupIds == (1..GroupMaxIndex) \X (1..MaxGeneration)

InList == {id \in GroupIds : iget(CSL, id)}

NextGroups ==
    \/ \E sv \in ListServices :
           /\ MayCommitTo(GroupMaxVersion)
           /\ EnlistServer(InvalidId, sv)
           /\ lastOp'.ret \in GroupIds
    \/ \E id \in InList :
           /\ MayCommitTo(GroupMaxVersion - 1)
           /\ EntryOf(CSL, id).status = UP
           /\ EnlistServer(id, {BACKUP})
           /\ lastOp'.ret \in GroupIds
    \/ \E id \in InList :
           MayCommitTo(GroupMaxVersion) /\ HintServerDown(id, TRUE)
    \/ \E id \in InList :
           /\ MayCommitTo(GroupMaxVersion)
           /\ EntryOf(CSL, id).status = CRASHED
           /\ Remove(id)

SpecGroups == Init /\ [][NextGroups]_vars

\* Backups in sequence: servers offering BACKUP, with or without MASTER,
\* enlist as new servers, are reported down with a verified failure, and are
\* removed at the end of their recovery.
BackupServices == {sv \in ListServices : BACKUP \in sv}

NextBackups ==
    \/ \E sv \in BackupServices :
           /\ MayCommitTo(BackupsMaxVersion)
           /\ EnlistServer(InvalidId, sv)
           /\ lastOp'.ret \in GroupIds
    \/ \E id \in InList :
           MayCommitTo(BackupsMaxVersion) /\ HintServerDown(id, TRUE)
    \/ \E id \in InList :
           /\ MayCommitTo(BackupsMaxVersion)
           /\ EntryOf(CSL, id).status = CRASHED
           /\ Remove(id)

SpecBackups == Init /\ [][NextBackups]_vars

\* The list operations together with the updater and the transport: members
\* enlist, are reported down and are removed (at the end of their recovery,
\* or while still up), and the updater propagates the committed updates.  The
\* rpcs have a timeout, so that an rpc in flight may time out or not at every
\* sweep.  The updater thread starts with InitialSlots update slots.
InitUpdater == InitWith(InitialSlots) /\ rpcTimeoutNs = 1

MemberServices == {{MASTER, MEMBERSHIP}}

\* The ids of the entries in the list.
Present == {id \in Ids : iget(CSL, id)}

ClientStep(bound) ==
    \/ \E id \in Present \cup {InvalidId}, sv \in MemberServices :
           MayCommitTo(bound) /\ EnlistServer(id, sv) /\ WithinBounds
    \/ \E id \in Present : MayCommitTo(bound) /\ HintServerDown(id, TRUE)
    \/ \E id \in Present : MayCommitTo(bound) /\ Remove(id)

UpdaterStep ==
    \/ UpdaterLoop
    \/ \E timedOut \in BOOLEAN : UpdaterCheckRpc(timedOut)
    \/ UpdaterLoad
    \/ UpdaterResize
    \/ UpdaterIdle

TransportStep ==
    \E k \in 1..Len(updateSlots), outcome \in {"ok", "notUp"} :
        RpcReady(k, outcome)

NextUpdater ==
    \/ ClientStep(UpdaterMaxVersion)
    \/ UpdaterStep
    \/ TransportStep

SpecUpdater == InitUpdater /\ [][NextUpdater]_vars

\* The same with callers of sync(), no timeout on the rpcs (the constructor's
\* rpcTimeoutNs), and the scheduling the claims about progress assume: the
\* updater thread and the sync() callers keep running, and every rpc in
\* flight becomes ready.
InitFair == InitWith(FairSlots) /\ rpcTimeoutNs = 0

SyncStep ==
    \/ \E t \in SyncThreads : SyncStart(t)
    \/ \E t \in SyncThreads : SyncCheck(t)

\* Members enlist, are reported down and are removed.
FairClientStep ==
    \/ \E sv \in MemberServices :
           /\ MayCommitTo(FairMaxVersion)
           /\ EnlistServer(InvalidId, sv)
           /\ WithinBounds
    \/ \E id \in Present :
           MayCommitTo(FairMaxVersion) /\ HintServerDown(id, TRUE)
    \/ \E id \in Present : MayCommitTo(FairMaxVersion) /\ Remove(id)

NextFair ==
    \/ FairClientStep
    \/ UpdaterStep
    \/ TransportStep
    \/ SyncStep

SpecFair ==
    /\ InitFair
    /\ [][NextFair]_vars
    /\ WF_vars(UpdaterStep)
    /\ WF_vars(TransportStep)
    /\ \A t \in SyncThreads : WF_vars(SyncCheck(t))

\* ------------------------------------------------------------------ claims
\* Positions of the records of an id with a status in a delta.
Positions(d, id, status) ==
    {k \in 1..Len(d) : d[k].serverId = id /\ d[k].status = status}

\* A step that returns a freshly generated id to its caller.
ReturnsNewId ==
    \/ GenerateUniqueId
    \/ \E r \in Ids \cup {InvalidId}, sv \in ListServices : EnlistServer(r, sv)

\* C1: generateUniqueId never returns an id it returned earlier (add being
\* called only with ids that generateUniqueId returned), and two calls in a
\* row return different indices.
C1_IdsNeverRepeat ==
    [][/\ ReturnsNewId => lastOp'.ret \notin issued
       /\ (GenerateUniqueId /\ lastOp.op = "generateUniqueId")
              => lastOp'.ret[1] # lastOp.ret[1]]_vars

\* An enlistServer step whose replacesId was in the list.
ReplaceEnlistStep ==
    /\ version' # version
    /\ lastOp'.op = "enlistServer"
    /\ lastOp'.before # <<>>

C8_StatusOnlyForward ==
    [][\A id \in Ids :
          /\ (iget(CSL, id) /\ EntryOf(CSL, id).status = CRASHED /\
              iget(CSL', id)) => EntryOf(CSL', id).status = CRASHED
          /\ id \in removed => ~iget(CSL', id)]_vars

\* The slots that hold an UP entry offering a service.
UpWith(service) ==
    {i \in 1..Len(serverList) :
        /\ serverList[i].entry # <<>>
        /\ serverList[i].entry[1].status = UP
        /\ service \in serverList[i].entry[1].services}

\* C9: masterCount() is the number of UP entries offering MASTER and
\* backupCount() the number of UP entries offering BACKUP; neither wraps.
C9_CountersMatch ==
    /\ numberOfMasters = Cardinality(UpWith(MASTER))
    /\ numberOfBackups = Cardinality(UpWith(BACKUP))

\* C10: a commitUpdate that finds the pending delta empty leaves the version
\* and the update queue as they were; one that finds records increases the
\* version by exactly 1, appends one UPDATE stamped with the new version
\* that holds those records in their order, and leaves the delta empty.
C10_CommitUpdate ==
    [][lastOp'.commits = 1 =>
         IF lastOp'.committed = <<>>
         THEN version' = version /\ updates' = updates /\ update' = update
         ELSE /\ version' = version + 1
              /\ updates' = Append(updates,
                                   [version |-> version + 1, type |-> UPDATE,
                                    servers |-> lastOp'.committed])
              /\ update' = <<>>]_vars

\* C10 witness: after an update was committed, an operation has called
\* commitUpdate with an empty pending delta.
C10_Witness ==
    /\ lastOp.commits = 1
    /\ lastOp.committed = <<>>
    /\ ~lastOp.threw
    /\ updates # <<>>
    /\ version = Len(updates)


\* The UP entries that offer MEMBERSHIP.
Members ==
    {i \in 1..Len(serverList) :
        /\ serverList[i].entry # <<>>
        /\ serverList[i].entry[1].status = UP
        /\ MEMBERSHIP \in serverList[i].entry[1].services}

VersionsHeld == {updates[k].version : k \in 1..Len(updates)}

C4_NeededUpdatesHeld ==
    /\ sweep.pc # "fatal"
    /\ \A i \in Members :
          LET v == serverList[i].entry[1].serverListVersion IN
          (0 < v /\ v < version) =>
              \A w \in (v + 1)..version : w \in VersionsHeld

\* C4 witness: updates have been pruned from the queue while a member is
\* still behind the current version.
C4_Witness ==
    /\ updates # <<>>
    /\ Head(updates).version > 1
    /\ \E i \in Members :
          /\ serverList[i].entry[1].serverListVersion > 0
          /\ serverList[i].entry[1].serverListVersion < version


\* Every UP entry with MEMBERSHIP is at the current version with no update
\* in flight.
AllMembersUpToDate ==
    \A i \in Members :
        /\ serverList[i].entry[1].serverListVersion = version
        /\ serverList[i].entry[1].isBeingUpdated = 0

\* C5: when the updater runs fairly, every rpc becomes ready and the commits
\* have ended, every UP entry with MEMBERSHIP ends up, and stays, at the
\* current version with no update in flight.
C5_MembersCatchUp == <>[]AllMembersUpToDate

\* C5 witness: a member has been brought from an older version to a current
\* version that is at least 2 while another member is in the list, and the
\* updater has gone to wait for more updates.
C5_Witness ==
    /\ version >= 2
    /\ AllMembersUpToDate
    /\ Cardinality(Members) >= 2
    /\ Updater \in hasUpdatesOrStop

\* C6: sync() returns only in a state in which every UP entry with MEMBERSHIP
\* has listVersion equal to the version and beingUpdated equal to 0.
C6_SyncReturnsUpToDate ==
    [][\A t \in SyncThreads :
          (syncPc[t] = "check" /\ syncPc'[t] = "returned")
              => AllMembersUpToDate']_vars

\* C6 witness: sync() has returned with members in the list, after it had
\* to go through the updater bringing them to version 2.
C6_Witness ==
    /\ \E t \in SyncThreads : syncPc[t] = "returned"
    /\ Members # {}
    /\ version >= 2

\* C7: a sync() call that has started returns, when the updater runs fairly,
\* every rpc becomes ready and the commits have ended.
C7_SyncReturns ==
    \A t \in SyncThreads : (syncPc[t] = "check") ~> (syncPc[t] = "returned")

\* C7 witness: a sync() caller is blocked in listUpToDate.wait while an rpc
\* is in flight to a server that has crashed meanwhile.
C7_Witness ==
    /\ \E t \in SyncThreads : syncPc[t] = "check" /\ t \in listUpToDate
    /\ \E k \in 1..Len(updateSlots) :
          /\ updateSlots[k].rpc # <<>>
          /\ iget(CSL, updateSlots[k].serverId)
          /\ EntryOf(CSL, updateSlots[k].serverId).status = CRASHED


\* C11: the update queue, when it is not empty, holds consecutive versions,
\* the last of them the current version and the first at most the current
\* version.
C11_QueueConsecutive ==
    updates # <<>> =>
        /\ \A k \in 1..(Len(updates) - 1) :
              updates[k + 1].version = updates[k].version + 1
        /\ updates[Len(updates)].version = version
        /\ Head(updates).version <= version

\* C11 witness: the queue has been pruned down to the update of the current
\* version while an rpc is in flight.
C11_Witness ==
    /\ Len(updates) = 1
    /\ version >= 2
    /\ Head(updates).version = version
    /\ \E k \in 1..Len(updateSlots) : updateSlots[k].rpc # <<>>

\* The list and counters, the version, the pending delta and the update queue
\* are left as they were, and no tracker event was enqueued.
NothingChanged ==
    /\ UNCHANGED <<serverList, numberOfMasters, numberOfBackups, version,
                   update, updates, nextReplicationId>>
    /\ lastOp'.events = <<>>
    /\ lastOp'.recoveries = <<>>

\* C12: the index of the id generateUniqueId returns (called directly, or by
\* an enlistServer that replaces no server of the list) is at least 1, its
\* slot held no entry, every slot from 1 below it held one, and the slot
\* vector grows exactly when the index is beyond it.
C12_SmallestFreeIndex ==
    [][(\/ lastOp'.op = "generateUniqueId"
        \/ lastOp'.op = "enlistServer" /\ lastOp'.before = <<>>) =>
         LET i == lastOp'.ret[1] IN
         /\ i >= 1
         /\ i < Len(serverList) => serverList[i + 1].entry = <<>>
         /\ \A j \in 1..(i - 1) :
               j < Len(serverList) /\ serverList[j + 1].entry # <<>>
         /\ Len(serverList') =
                IF i >= Len(serverList) THEN i + 1 ELSE Len(serverList)
         /\ serverList'[i + 1].entry # <<>>
         /\ serverList'[i + 1].entry[1].serverId = lastOp'.ret]_vars

\* C12 witness: generateUniqueId has returned index 1, a freed slot below an
\* occupied one.
C12_Witness ==
    /\ lastOp.op = "generateUniqueId"
    /\ lastOp.ret[1] = 1
    /\ Len(serverList) = 3
    /\ serverList[3].entry # <<>>

\* C13: every occupied slot i holds an entry whose id has index i and a
\* generation below the slot's nextGenerationNumber.
C13_SlotMatchesId ==
    \A i \in 1..Len(serverList) :
        serverList[i].entry # <<>> =>
            /\ serverList[i].entry[1].serverId[1] = i - 1
            /\ serverList[i].entry[1].serverId[2] <
                   serverList[i].nextGenerationNumber

\* C13 witness: add has put an id of generation 1 into a slot from which
\* generation 2 had been handed out.
C13_Witness ==
    \E i \in 1..Len(serverList) :
        /\ serverList[i].entry # <<>>
        /\ serverList[i].entry[1].serverId = <<i - 1, 1>>
        /\ <<i - 1, 2>> \in issued
        /\ lastOp.op = "add"

\* C14: hintServerDown changes nothing unless the id names an UP entry whose
\* failure is verified: it returns true without a change for an id that is
\* not in the list or whose entry is not UP, and false without a change
\* when the entry is UP and the failure is not verified.
C14_HintChangesNothing ==
    [][\A id \in Ids, failed \in BOOLEAN :
          LET known == iget(CSL, id) /\ EntryOf(CSL, id).status = UP IN
          (HintServerDown(id, failed) /\ ~(known /\ failed)) =>
              /\ NothingChanged
              /\ lastOp'.commits = 0
              /\ lastOp'.ret = IF known THEN False ELSE True]_vars

\* C14 witness: hintServerDown has returned false for an UP server after an
\* update was committed.
C14_Witness ==
    /\ lastOp.op = "hintServerDown"
    /\ lastOp.ret = False
    /\ lastOp.before # <<>>
    /\ version >= 1

\* C20: crashed and remove, called with an id whose index is beyond the slot
\* vector, whose slot is empty or whose slot holds another generation, throw
\* and change nothing.
C20_UnknownIdChangesNothing ==
    [][\A id \in Ids \cup {BeyondId} :
          LET unknown == \/ id[1] >= Len(serverList)
                         \/ serverList[id[1] + 1].entry = <<>>
                         \/ serverList[id[1] + 1].entry[1].serverId # id
          IN ((Crashed(id) \/ Remove(id)) /\ unknown) =>
                 /\ lastOp'.threw
                 /\ lastOp'.commits = 0
                 /\ NothingChanged]_vars

\* C20 witness: remove has thrown for an id whose slot holds an entry of
\* another generation.
C20_Witness ==
    /\ lastOp.op = "remove"
    /\ lastOp.threw
    /\ lastOp.arg[1] < Len(serverList)
    /\ serverList[lastOp.arg[1] + 1].entry # <<>>
    /\ serverList[lastOp.arg[1] + 1].entry[1].serverId # lastOp.arg


\* The ids and statuses of the records of a delta, in order.
Outline(d) == [k \in 1..Len(d) |-> <<d[k].serverId, d[k].status>>]

\* C15: hintServerDown on an UP server whose failure is verified returns
\* true, commits exactly one update, hands one snapshot of the victim to
\* startMasterRecovery, and leaves a victim offering MASTER in the list as
\* CRASHED while it removes any other victim in that same update (CRASHED
\* record, then DOWN record, slot freed).
C15_VerifiedHint ==
    [][\A id \in Ids :
          LET known == iget(CSL, id) /\ EntryOf(CSL, id).status = UP
              b == EntryOf(CSL, id)
              d == lastOp'.committed
          IN (HintServerDown(id, TRUE) /\ known) =>
                /\ lastOp'.ret = True
                /\ lastOp'.commits = 1
                /\ version' = version + 1
                /\ updates' = Append(updates, [version |-> version',
                                               type |-> UPDATE,
                                               servers |-> d])
                /\ lastOp'.recoveries = <<b>>
                /\ Positions(d, id, CRASHED) # {}
                /\ IF MASTER \in b.services
                   THEN /\ iget(CSL', id)
                        /\ EntryOf(CSL', id).status = CRASHED
                        /\ Positions(d, id, DOWN) = {}
                   ELSE /\ serverList'[id[1] + 1].entry = <<>>
                        /\ Positions(d, id, DOWN) # {}
                        /\ \A c \in Positions(d, id, CRASHED),
                              p \in Positions(d, id, DOWN) : c < p]_vars

\* C15 witness: a verified hintServerDown has removed an UP server that
\* offers BACKUP only.
C15_Witness ==
    /\ lastOp.op = "hintServerDown"
    /\ lastOp.ret = True
    /\ lastOp.commits = 1
    /\ lastOp.before # <<>>
    /\ lastOp.before[1].services = {BACKUP}
    /\ lastOp.recoveries # <<>>
    /\ ~iget(CSL, lastOp.arg)

\* The list holds the MASTER (1,1) alone, enlisted at version 1.
OnlyMasterOne ==
    /\ version = 1
    /\ Len(serverList) = 2
    /\ serverList[2].entry = <<NewEntry(<<1, 1>>, {MASTER})>>
    /\ Len(updates) = 1

\* The enlistServer call of the scenario: (1,1) replaced by a MASTER.
ReplacesMasterOne ==
    /\ OnlyMasterOne
    /\ EnlistServer(<<1, 1>>, {MASTER})

UpBackupsIn(list, g) ==
    {i \in 1..Len(list) :
        /\ list[i].entry # <<>>
        /\ list[i].entry[1].status = UP
        /\ BACKUP \in list[i].entry[1].services
        /\ list[i].entry[1].replicationId = g}

\* C16: when a server with a replicationId g other than 0 is forced down
\* (by a verified hintServerDown or by the enlistment that replaces it), no
\* UP backup holds g afterwards, the records of its former groupmates (with
\* the replicationId they end with) are in the one update committed with
\* the record of the crash, and removeReplicationGroup(0) changes nothing.
C16_GroupDissolved ==
    [][/\ removeReplicationGroup(CSL, 0) = CSL
       /\ LET o == lastOp'
              d == o.committed
          IN (/\ o.op \in {"hintServerDown", "enlistServer"}
              /\ o.before # <<>>
              /\ o.before[1].status = UP
              /\ o.before[1].replicationId # 0) =>
                 LET g == o.before[1].replicationId
                     mates == UpBackupsIn(serverList, g) \ {o.arg[1] + 1}
                 IN /\ UpBackupsIn(serverList', g) = {}
                    /\ o.commits = 1
                    /\ version' = version + 1
                    /\ Positions(d, o.arg, CRASHED) # {}
                    /\ \A i \in mates :
                          /\ serverList'[i].entry # <<>>
                          /\ \E k \in 1..Len(d) :
                                d[k] = SerializeEntry(
                                           serverList'[i].entry[1])]_vars

\* C16 witness: a server of a replication group has been forced down and two
\* UP backups that were in its group are in the list.
C16_Witness ==
    /\ lastOp.op = "hintServerDown"
    /\ lastOp.ret = True
    /\ lastOp.before # <<>>
    /\ lastOp.before[1].replicationId # 0
    /\ Cardinality(UpBackupsIn(serverList, 0)) >= 2

Enlisted(n) ==
    /\ version = n
    /\ Len(serverList) = n + 1
    /\ \A i \in 2..(n + 1) :
          /\ serverList[i].entry # <<>>
          /\ serverList[i].entry[1].serverId = <<i - 1, 1>>
          /\ serverList[i].entry[1].status = UP
          /\ BACKUP \in serverList[i].entry[1].services

\* After six enlists the replication groups 1 and 2 exist, of three backups
\* each, and no backup is left with 0.
SixInTwoGroups ==
    Enlisted(6) =>
        /\ Cardinality(UpBackupsIn(serverList, 1)) = 3
        /\ Cardinality(UpBackupsIn(serverList, 2)) = 3
        /\ UpBackupsIn(serverList, 0) = {}
        /\ nextReplicationId = 3

\* C18 (as claimed): after the sixth enlist two groups exist, with
\* replicationId 1 and 2 and three backups each, and after the fifth enlist
\* exactly one backup has replicationId 0.
C18_FifthLeavesOne ==
    /\ SixInTwoGroups
    /\ Enlisted(5) => Cardinality(UpBackupsIn(serverList, 0)) = 1

\* C18 (amended): after the sixth enlist group 1 holds the first three
\* backups and group 2 the last three; after the fifth enlist group 1
\* exists alone and exactly two backups, the fourth and the fifth, have
\* replicationId 0.
C18_FifthLeavesTwo ==
    /\ SixInTwoGroups
    /\ Enlisted(6) => /\ UpBackupsIn(serverList, 1) = {2, 3, 4}
                      /\ UpBackupsIn(serverList, 2) = {5, 6, 7}
    /\ Enlisted(5) => /\ UpBackupsIn(serverList, 1) = {2, 3, 4}
                      /\ UpBackupsIn(serverList, 0) = {5, 6}
                      /\ nextReplicationId = 2

\* C18 witness: six backups have enlisted on the empty list.
C18_Witness ==
    /\ Enlisted(6)
    /\ lastOp.op = "enlistServer"
    /\ lastOp.ret = <<6, 1>>

\* Trackers: servers enlist, as new servers or in place of a server the
\* caller names, are reported down (the failure verified or not), and are
\* marked crashed and removed by callers that hold an id enlistServer
\* returned; the callers run in any order, one at a time under the mutex.
NextTrackers ==
    \/ \E id \in issued \cup {InvalidId}, sv \in ListServices :
           /\ MayCommitTo(TrackerMaxVersion)
           /\ EnlistServer(id, sv)
           /\ WithinBounds
    \/ \E id \in issued, failed \in BOOLEAN :
           MayCommitTo(TrackerMaxVersion) /\ HintServerDown(id, failed)
    \/ \E id \in issued : MayCommitTo(TrackerMaxVersion) /\ Crashed(id)
    \/ \E id \in issued : MayCommitTo(TrackerMaxVersion) /\ Remove(id)

SpecTrackers == Init /\ [][NextTrackers]_vars

\* Where an id is in its life, read from the list and the ids handed out:
\* "NONE" before it is enlisted, UP or CRASHED while its entry is in the
\* list, "GONE" once its entry was destroyed.
PhaseOf(list, handedOut, id) ==
    IF /\ id[1] < Len(list)
       /\ list[id[1] + 1].entry # <<>>
       /\ list[id[1] + 1].entry[1].serverId = id
    THEN list[id[1] + 1].entry[1].status
    ELSE IF id \in handedOut THEN "GONE" ELSE "NONE"

\* The phase a tracker that has seen an id in a phase takes it to after one
\* more event; "BAD" when the event is out of order.
AfterEvent(phase, event) ==
    IF phase = "NONE" /\ event = SERVER_ADDED THEN UP
    ELSE IF phase = UP /\ event = SERVER_CRASHED THEN CRASHED
    ELSE IF phase = CRASHED /\ event = SERVER_REMOVED THEN "GONE"
    ELSE "BAD"

RECURSIVE AfterEvents(_, _, _)
AfterEvents(phase, events, id) ==
    IF events = <<>> THEN phase
    ELSE AfterEvents(IF Head(events)[2] = id
                     THEN AfterEvent(phase, Head(events)[1]) ELSE phase,
                     Tail(events), id)

\* The event a record of a delta stands for.
EventOfStatus(status) ==
    IF status = UP THEN SERVER_ADDED
    ELSE IF status = CRASHED THEN SERVER_CRASHED ELSE SERVER_REMOVED

\* The events of the records of a delta that change the status of their id
\* (a record of setReplicationId leaves it as it was), in order; phase maps
\* every id to its phase before the delta.
RECURSIVE ChangesIn(_, _)
ChangesIn(d, phase) ==
    IF d = <<>> THEN <<>>
    ELSE LET r == Head(d)
             new == IF r.status = DOWN THEN "GONE" ELSE r.status
         IN IF phase[r.serverId] = new
            THEN ChangesIn(Tail(d), phase)
            ELSE <<<<EventOfStatus(r.status), r.serverId>>>> \o
                 ChangesIn(Tail(d), [phase EXCEPT ![r.serverId] = new])

\* C21: the events an operation enqueues on the trackers are, in order, the
\* status changes it made to the list (the records of the update it
\* commits that change a status), whatever the order of the callers; for
\* every id the events are
\* ADDED, then at most one CRASHED, then at most one REMOVED, a REMOVED
\* always after a CRASHED, and they leave the id in the phase the list
\* shows.
C21_TrackerOrder ==
    [][/\ lastOp'.events =
              ChangesIn(lastOp'.committed,
                        [id \in Ids |-> PhaseOf(serverList, issued, id)])
       /\ \A id \in Ids :
              AfterEvents(PhaseOf(serverList, issued, id), lastOp'.events, id)
                  = PhaseOf(serverList', issued', id)]_vars

\* C21 witness: an UP server is removed, its trackers get CRASHED and then
\* REMOVED, after another server has replaced a crashed one.
C21_Witness ==
    /\ lastOp.op = "remove"
    /\ lastOp.before # <<>>
    /\ lastOp.before[1].status = UP
    /\ lastOp.events = <<<<SERVER_CRASHED, lastOp.arg>>,
                         <<SERVER_REMOVED, lastOp.arg>>>>
    /\ Cardinality(issued) >= 2

\* The masks over the service enum.
ServiceMasks == SUBSET {MASTER, BACKUP, MEMBERSHIP, PING, ADMIN}

\* The serialized entries of the slots from index i on whose services
\* intersect a mask, in slot order.
RECURSIVE IntersectingFrom(_, _, _)
IntersectingFrom(s, mask, i) ==
    IF i >= Size(s) THEN <<>>
    ELSE LET t == SlotOf(s, i).entry IN
         IF t # <<>> /\ t[1].services \cap mask # {}
         THEN <<SerializeEntry(t[1])>> \o IntersectingFrom(s, mask, i + 1)
         ELSE IntersectingFrom(s, mask, i + 1)

\* C24: for every mask, serialize(mask) emits in slot order exactly the
\* entries whose services intersect the mask, with the current version and
\* the type FULL_LIST.
C24_SerializeIntersects ==
    \A mask \in ServiceMasks :
        serialize(CSL, mask) =
            [version |-> version, type |-> FULL_LIST,
             servers |-> IntersectingFrom(CSL, mask, 0)]

\* Recovery blobs: masters enlist and are removed, and the blob of an id
\* enlistServer returned is set, by setMasterRecoveryInfo or, at coordinator
\* recovery, from a ServerUpdate record of the durable log.
EntryIds == 1..MaxEntryId

NextRecoveryInfo ==
    \/ /\ MayCommitTo(RecoveryInfoMaxVersion)
       /\ EnlistServer(InvalidId, {MASTER})
       /\ WithinBounds
    \/ \E id \in issued : MayCommitTo(RecoveryInfoMaxVersion) /\ Remove(id)
    \/ \E id \in issued, entryId \in EntryIds :
           SetMasterRecoveryInfo(id, 1, entryId)
    \/ \E id \in issued, entryId \in EntryIds :
           SetMasterRecoveryInfoRecover(id, 1, entryId)

SpecRecoveryInfo == Init /\ [][NextRecoveryInfo]_vars

\* C25: SetMasterRecoveryInfo.complete(entryId) for an id that is not in the
\* list asks the durable log to invalidate exactly [entryId], changes no
\* entry and raises; setMasterRecoveryInfo for such an id raises and appends
\* nothing to the durable log.
C25_VanishedServer ==
    [][/\ (/\ lastOp'.op = "setMasterRecoveryInfoRecover"
           /\ lastOp'.before = <<>>) =>
              /\ lastOp'.invalidates = <<<<lastOp'.ret[1]>>>>
              /\ lastOp'.threw
              /\ serverList' = serverList
       /\ (/\ lastOp'.op = "setMasterRecoveryInfo"
           /\ lastOp'.before = <<>>) =>
              /\ lastOp'.appends = <<>>
              /\ lastOp'.invalidates = <<>>
              /\ lastOp'.threw
              /\ serverList' = serverList]_vars

\* Halting the updater: members enlist and, up to one version later, are
\* reported down while the updater runs; rpcs complete or stay in flight for
\* ever; with a nonzero rpcTimeoutNs they may time out; a caller halts the
\* updater.
InitHalt == InitWith(InitialSlots) /\ rpcTimeoutNs \in {0, 1}

HaltStep ==
    \/ UpdaterCancel
    \/ \E t \in HaltThreads : HaltSignal(t)
    \/ \E t \in HaltThreads : HaltJoin(t)

HaltClientStep ==
    \/ \E sv \in MemberServices :
           /\ MayCommitTo(HaltMaxVersion)
           /\ EnlistServer(InvalidId, sv)
           /\ WithinBounds
    \/ \E id \in Present :
           MayCommitTo(HaltMaxVersion + 1) /\ HintServerDown(id, TRUE)

NextHalt ==
    \/ HaltClientStep
    \/ UpdaterStep
    \/ TransportStep
    \/ HaltStep

SpecHalt == InitHalt /\ [][NextHalt]_vars

\* Halting the updater while members enlist; the updater thread and the
\* caller of haltUpdater keep running, rpcs may stay in flight for ever.
NextHaltFair ==
    \/ \E sv \in MemberServices :
           /\ MayCommitTo(HaltFairMaxVersion)
           /\ EnlistServer(InvalidId, sv)
           /\ WithinBounds
    \/ UpdaterStep
    \/ TransportStep
    \/ HaltStep

SpecHaltFair ==
    /\ InitHalt
    /\ [][NextHaltFair]_vars
    /\ WF_vars(UpdaterStep \/ UpdaterCancel)
    /\ \A t \in HaltThreads : WF_vars(HaltJoin(t))

\* The slot whose rpc the step ends in dispatchRpc, and the slot whose rpc
\* the step cancels at shutdown.
EndsRpc ==
    /\ sweep.pc = "dispatch"
    /\ sweep'.pc = "load"

CancelsRpc ==
    /\ sweep.pc = "cancel"
    /\ sweep.it <= Len(inUse)
    /\ sweep'.it = sweep.it + 1
    /\ CurrentSlot.rpc # <<>>

\* The step leaves the target of the slot at the version it had when the
\* rpc was loaded, not being updated and found by the next scan.
LeftForRetry(slot) ==
    \A id \in {slot.serverId}, loaded \in {slot.originalVersion},
       sent \in {slot.protobuf.version} :
        iget(CSL, id) =>
            /\ EntryOf(CSL, id)'.serverListVersion
                   = EntryOf(CSL, id).serverListVersion
            /\ EntryOf(CSL, id)'.serverListVersion = loaded
            /\ EntryOf(CSL, id)'.serverListVersion # sent
            /\ EntryOf(CSL, id)'.isBeingUpdated = 0
            /\ loaded < version' => ~lastScan'.noUpdatesFound

\* The step sets the target of the slot to the version of the payload.
Acknowledged(slot) ==
    \A id \in {slot.serverId}, sent \in {slot.protobuf.version} :
        iget(CSL, id) =>
            /\ EntryOf(CSL, id)'.serverListVersion = sent
            /\ EntryOf(CSL, id)'.isBeingUpdated = 0

\* C22: an update rpc ended by timeout, by the shutdown of the updater or
\* with ServerNotUp leaves the entry's serverListVersion at the value it had
\* when the rpc was loaded and its isBeingUpdated at 0, so that the next scan
\* finds it; a successful rpc sets serverListVersion to the version of the
\* payload; with rpcTimeoutNs = 0 no rpc in flight is ended in dispatchRpc.
C22_FailedRpcKeepsVersion ==
    [][/\ EndsRpc =>
            /\ CurrentSlot.rpc[1] = "inflight" => rpcTimeoutNs # 0
            /\ CurrentSlot.rpc[1] # "ok" => LeftForRetry(CurrentSlot)
            /\ CurrentSlot.rpc[1] = "ok" => Acknowledged(CurrentSlot)
       /\ CancelsRpc => LeftForRetry(CurrentSlot)]_vars

\* The updater has just ended by timeout the rpc to a listed server that
\* still lacks the current list.
C22_Witness ==
    /\ sweep.pc = "load"
    /\ rpcTimeoutNs # 0
    /\ \E id \in Present :
          /\ EntryOf(CSL, id).status = UP
          /\ EntryOf(CSL, id).isBeingUpdated = 0
          /\ EntryOf(CSL, id).serverListVersion = 0
          /\ \A k \in 1..Len(updateSlots) : updateSlots[k].rpc = <<>>
          /\ Cardinality(Present) = 1
          /\ ~lastScan.noUpdatesFound
          /\ version = 1

\* C23: haltUpdater returns whenever it is called, whether the updater is
\* waiting for updates or has rpcs in flight that never complete; once it
\* has returned no entry is being updated; and a step that cancels an rpc
\* at shutdown leaves the serverListVersion of its target as it was.
C23_HaltTerminates ==
    /\ \A t \in HaltThreads : (syncPc[t] = "join") ~> (syncPc[t] = "halted")
    /\ [](\A t \in HaltThreads : syncPc[t] = "halted" =>
             \A id \in Present : EntryOf(CSL, id).isBeingUpdated = 0)
    /\ [][CancelsRpc => LeftForRetry(CurrentSlot)]_vars

\* haltUpdater has returned and has left a listed server without the
\* current list.
C23_Witness ==
    /\ syncPc["halt1"] = "halted"
    /\ ~thread
    /\ sweep.pc = "exited"
    /\ \E id \in Present :
          /\ EntryOf(CSL, id).status = UP
          /\ EntryOf(CSL, id).serverListVersion < version
          /\ EntryOf(CSL, id).isBeingUpdated = 0

\* The hash table alone: a table of 1..MaxBuckets buckets is constructed;
\* keys are inserted for the first time in the order of KeyAt with their
\* first object and inserted again after a remove; keys are overwritten with
\* either object and removed while the table has seen one key or more keys
\* than a cache line holds.
InitHashTable ==
    /\ InitCMM(InitialSlots)
    /\ rpcTimeoutNs = 0
    /\ \E n \in 1..MaxBuckets : ht = HashTable(n)
    /\ htOp = NoHtOp
    /\ testEntry = NoEntryOp(clear)

Stored(key) == lookup(ht, key).found

ObjectsOf(key) == {KeyIndex(key), KeyIndex(key) + NumKeys}

MayChange ==
    /\ htOp.changes < MaxChanges
    /\ htOp.seen = 1 \/ htOp.seen > ENTRIES_PER_CACHE_LINE

Candidates == {k \in Keys : KeyIndex(k) <= htOp.seen + 1}

NextHashTable ==
    \/ \E key \in Candidates : ~Stored(key) /\ Replace(key, KeyIndex(key))
    \/ \E key \in Candidates, reference \in References :
          /\ MayChange
          /\ reference \in ObjectsOf(key)
          /\ Stored(key)
          /\ Replace(key, reference)
    \/ \E key \in Candidates : MayChange /\ Stored(key) /\ HtRemove(key)
    \/ \E key \in Candidates : ~Stored(key) /\ HtRemove(key)

SpecHashTable == InitHashTable /\ [][NextHashTable]_vars

\* The places <<cache line, entry>> of a table that hold a reference to an
\* object with the key, read from the words of the table.
PlacesOf(h, key) ==
    {p \in (1..Len(h.lines)) \X (0..seven) :
        \E word \in {EntryAt(h.lines[p[1]], p[2])} :
            /\ word # 0
            /\ (word \div ChainBit) % 2 = 0
            /\ word % ChainBit \in ObjectsOf(key)}

Holds(h, key) == PlacesOf(h, key) # {}

\* The table has an overflow cache line.
Chained(h) == Len(h.lines) > h.numBuckets

\* C26: in every table reached by replace and remove, for every key and
\* every reference to an object with that key, lookup after replace finds
\* the key and yields that reference.
C26_ReplaceThenLookup ==
    \A key \in Keys : \A reference \in ObjectsOf(key) :
        lookup(replace(ht, key, reference).h, key)
            = [found |-> TRUE, reference |-> reference]

\* replace has just stored a key in an overflow cache line of a table with
\* one bucket; keys that differ only in the table id are stored.
C26_Witness ==
    /\ htOp.op = "replace"
    /\ ht.numBuckets = 1
    /\ Chained(ht)
    /\ \E key \in Keys : \E p \in PlacesOf(ht, key) : p[1] = 2 /\ p[2] = 1
    /\ lookup(ht, <<0, 0>>) = [found |-> TRUE, reference |-> 1]
    /\ lookup(ht, <<1, 0>>) = [found |-> TRUE, reference |-> 2]

\* C27: remove returns true exactly for a key the table holds; then lookup
\* does not find the key and a second remove returns false; remove of a key
\* the table does not hold returns false and leaves the table as it was.
C27_RemoveIffPresent ==
    \A key \in Keys :
        \E r \in {remove(ht, key)} :
            /\ r.ret = Holds(ht, key)
            /\ r.ret => /\ ~lookup(r.h, key).found
                        /\ ~Holds(r.h, key)
                        /\ ~remove(r.h, key).ret
            /\ ~r.ret => r.h = ht

\* remove has just taken a key out of a chained table that still holds
\* other keys.
C27_Witness ==
    /\ htOp.op = "remove"
    /\ htOp.ret
    /\ Chained(ht)
    /\ \E key \in Keys : ~Holds(ht, key) /\ KeyIndex(key) <= htOp.seen
    /\ \E key \in Keys : Holds(ht, key)

\* C28: replace returns false for a key the table does not hold and true
\* for a key it holds, whose entry it overwrites where it is, whatever the
\* reference; no table reached by replace and remove has two entries for
\* one key.
C28_ReplaceReturn ==
    \A key \in Keys : \E old \in {PlacesOf(ht, key)} :
        /\ Cardinality(old) <= 1
        /\ \A reference \in ObjectsOf(key) :
              \E r \in {replace(ht, key, reference)} :
                  /\ r.ret = (old # {})
                  /\ Cardinality(PlacesOf(r.h, key)) = 1
                  /\ r.ret =>
                        \A p \in old :
                            r.h.lines = [ht.lines EXCEPT ![p[1]] =
                                WithEntry(@, p[2],
                                          pack(getHash(key) \div BucketSpan,
                                               FALSE, reference))]

\* replace has just overwritten the entry of a key with a reference to the
\* second object of that key.
C28_Witness ==
    /\ htOp.op = "replace"
    /\ htOp.ret
    /\ \E key \in Keys :
          lookup(ht, key) = [found |-> TRUE,
                             reference |-> KeyIndex(key) + NumKeys]

\* C29: in a table of one bucket whose only cache line holds
\* ENTRIES_PER_CACHE_LINE references, replace of a new key allocates one
\* cache line, makes the last entry of the first line a chain pointer to
\* it, and puts the entry that was there in entry 0 and the new entry in
\* entry 1 of the new line; lookup finds all nine keys.
FullSingleLine(h) ==
    /\ h.numBuckets = 1
    /\ Len(h.lines) = 1
    /\ \A j \in 0..seven :
          /\ EntryAt(h.lines[1], j) # 0
          /\ ~unpack(EntryAt(h.lines[1], j)).chain

C29_NinthKeyOverflows ==
    FullSingleLine(ht) =>
        \A key \in Keys : \A reference \in ObjectsOf(key) :
            ~Holds(ht, key) =>
                \E r \in {replace(ht, key, reference).h} :
                    /\ Len(r.lines) = 2
                    /\ unpack(EntryAt(r.lines[1], seven))
                           = [hash |-> 0, chain |-> TRUE, ptr |-> 2]
                    /\ \A j \in 0..(seven - 1) :
                          EntryAt(r.lines[1], j) = EntryAt(ht.lines[1], j)
                    /\ EntryAt(r.lines[2], 0) = EntryAt(ht.lines[1], seven)
                    /\ unpack(EntryAt(r.lines[2], 1))
                           = [hash |-> getHash(key) \div BucketSpan,
                              chain |-> FALSE, ptr |-> reference]
                    /\ \A j \in 2..seven : EntryAt(r.lines[2], j) = 0
                    /\ \A k \in Keys :
                          (Holds(ht, k) \/ k = key) => lookup(r, k).found
                    /\ \A k \in Keys :
                          Holds(ht, k) => lookup(r, k) = lookup(ht, k)

\* The ninth key has just been inserted into a table of one bucket.
C29_Witness ==
    /\ htOp = [op |-> "replace", ret |-> FALSE, seen |-> 9, changes |-> 0]
    /\ ht.numBuckets = 1
    /\ Len(ht.lines) = 2
    /\ getChainPointer(EntryAt(ht.lines[1], seven)) = 2
    /\ getReference(EntryAt(ht.lines[2], 0)) = 8
    /\ getReference(EntryAt(ht.lines[2], 1)) = 9

\* C30: forEach calls back once for every entry that holds a reference, in
\* the buckets and in the overflow cache lines, never for a chain pointer
\* or an empty entry, with the caller's cookie, and returns the number of
\* callbacks, which is the number of keys the table holds.
StoredReferences(h) ==
    {EntryAt(h.lines[p[1]], p[2]) % ChainBit :
        p \in UNION {PlacesOf(h, key) : key \in Keys}}

C30_ForEachOnce ==
    \E f \in {forEach(ht, Cookie)} :
        /\ f.ret = Len(f.callbacks)
        /\ f.ret = Cardinality({key \in Keys : Holds(ht, key)})
        /\ \A i \in 1..Len(f.callbacks) : f.callbacks[i][2] = Cookie
        /\ {f.callbacks[i][1] : i \in 1..Len(f.callbacks)}
               = StoredReferences(ht)
        /\ \A i, k \in 1..Len(f.callbacks) :
              f.callbacks[i][1] = f.callbacks[k][1] => i = k

\* A table of two buckets with an overflow cache line holds every key.
C30_Witness ==
    /\ ht.numBuckets = 2
    /\ Chained(ht)
    /\ forEach(ht, Cookie).ret = NumKeys

\* ---------------------------------------------------------------- C31
\* A hash table entry alone: the test's entry is a local object whose word
\* is not initialised, so it starts with some word (all bits clear or all
\* bits set here); as in the tests, pack is called on an entry that was just
\* constructed or cleared, with every
\* hash of the hash width, both chain flags and every pointer of up to one
\* bit more than the pointer field holds, and clear is called.
WordSpan == HashSpan * 2 * ChainBit

InitEntry ==
    /\ InitCMM(InitialSlots)
    /\ rpcTimeoutNs = 0
    /\ ht = HashTable(1)
    /\ htOp = NoHtOp
    /\ \E value \in {0, WordSpan - 1} : testEntry = NoEntryOp(value)

NextEntry ==
    \/ /\ testEntry.op \in {"none", "clear"}
       /\ \E hash \in 0..(HashSpan - 1), chain \in BOOLEAN,
             ptr \in 0..(2 * ChainBit - 1) : Pack(hash, chain, ptr)
    \/ Clear

SpecEntry == InitEntry /\ [][NextEntry]_vars

\* C31: pack(h, c, p) succeeds exactly when p fits the pointer field, and
\* then unpack returns (h, c, p), for every hash of the hash width and both
\* chain flags; a wider p makes pack throw; pack(0, false, 0) yields the
\* word that clear yields.
C31_PackRoundTrip ==
    testEntry.op = "pack" =>
        /\ testEntry.threw = (testEntry.ptr \div ChainBit # 0)
        /\ ~testEntry.threw =>
              unpack(testEntry.value) =
                  [hash |-> testEntry.hash, chain |-> testEntry.chain,
                   ptr |-> testEntry.ptr]
        /\ (testEntry.hash = 0 /\ ~testEntry.chain /\ testEntry.ptr = 0) =>
              testEntry.value = clear

\* Reached: a pack of the largest hash, the chain flag and the largest
\* pointer succeeded.
C31_Witness ==
    /\ testEntry.op = "pack"
    /\ ~testEntry.threw
    /\ testEntry.hash = HashSpan - 1
    /\ testEntry.chain
    /\ testEntry.ptr = MaxPointer
    /\ testEntry.value = WordSpan - 1

\* ---------------------------------------------------------------- C32
\* The tenth distinct key has just been inserted into a table of one bucket
\* that nothing else was done to.
TenKeysInOneBucket ==
    /\ htOp = [op |-> "replace", ret |-> FALSE,
               seen |-> ENTRIES_PER_CACHE_LINE + 2, changes |-> 0]
    /\ ht.numBuckets = 1

TenReferencesOnce ==
    \E f \in {forEach(ht, Cookie)} :
        /\ f.ret = ENTRIES_PER_CACHE_LINE + 2
        /\ Len(f.callbacks) = ENTRIES_PER_CACHE_LINE + 2
        /\ \A i, k \in 1..Len(f.callbacks) :
              f.callbacks[i][1] = f.callbacks[k][1] => i = k

\* C32 as stated: after nine distinct keys in a table of one bucket, the
\* tenth key's entry is in the second slot (index 1) of the overflow cache
\* line, and forEach yields 10 references without duplicates.
C32_TenthInSecondSlot ==
    TenKeysInOneBucket =>
        /\ PlacesOf(ht, KeyAt(ENTRIES_PER_CACHE_LINE + 2)) = {<<2, 1>>}
        /\ TenReferencesOnce

\* C32 as the table behaves: the second slot of the overflow cache line
\* holds the ninth key (the first holds the entry moved out of the last slot
\* of the bucket), so the tenth key's entry is in the third slot (index 2);
\* forEach yields 10 references without duplicates.
C32_TenthInThirdSlot ==
    TenKeysInOneBucket =>
        /\ Len(ht.lines) = 2
        /\ getChainPointer(EntryAt(ht.lines[1], seven)) = 2
        /\ PlacesOf(ht, KeyAt(ENTRIES_PER_CACHE_LINE)) = {<<2, 0>>}
        /\ PlacesOf(ht, KeyAt(ENTRIES_PER_CACHE_LINE + 1)) = {<<2, 1>>}
        /\ PlacesOf(ht, KeyAt(ENTRIES_PER_CACHE_LINE + 2)) = {<<2, 2>>}
        /\ TenReferencesOnce

\* Reached: the tenth key was inserted and lookup finds it.
C32_Witness ==
    /\ TenKeysInOneBucket
    /\ lookup(ht, KeyAt(ENTRIES_PER_CACHE_LINE + 2)).found
    /\ Cardinality({key \in Keys : Holds(ht, key)})
           = ENTRIES_PER_CACHE_LINE + 2

\* ---------------------------------------------------------------- C33
\* An entry that loadNextUpdate would pick: an UP member that is not at the
\* current version and has no rpc in flight.
Eligible(t, v) ==
    /\ t # <<>>
    /\ MEMBERSHIP \in t[1].services
    /\ t[1].status = UP
    /\ t[1].serverListVersion # v
    /\ t[1].isBeingUpdated = 0

\* The updater is about to evaluate the condition of its idle loop, and is
\* not stopping: it has finished a sweep without a live rpc.
AtIdleCheck ==
    /\ thread
    /\ sweep.pc = "idle"
    /\ Updater \notin hasUpdatesOrStop
    /\ ~stopUpdater

\* C33: the assertion of the idle path never fails: when the updater, after
\* a sweep without a live rpc, finds hasUpdates false under the mutex and
\* is not stopping, isClusterUpToDate holds, whatever enlistServer,
\* hintServerDown, remove and the completions and timeouts of the rpcs did
\* in between; and noUpdatesFound is never true while an entry is eligible
\* for an update.
C33_IdleAssertionHolds ==
    /\ sweep.pc # "assert"
    /\ AtIdleCheck =>
          \E h \in {hasUpdates(CSL)} : ~h.r => isClusterUpToDate(h.s)
    /\ lastScan.noUpdatesFound =>
          \A i \in 0..(Size(CSL) - 1) :
              ~Eligible(SlotOf(CSL, i).entry, version)

\* Reached: after the second commit the updater has passed the assertion
\* and waits, with a member in the list that acknowledged that version.
C33_Witness ==
    /\ sweep.pc = "idle"
    /\ Updater \in hasUpdatesOrStop
    /\ lastScan.noUpdatesFound
    /\ version = UpdaterMaxVersion
    /\ \E id \in Present :
          /\ EntryOf(CSL, id).status = UP
          /\ EntryOf(CSL, id).serverListVersion = version

\* ---------------------------------------------------------------- C34
\* The updater is at the end of a sweep, before "Expand/Contract".
AtResize ==
    /\ thread
    /\ sweep.pc = "dispatch"
    /\ sweep.it > Len(inUse)

\* C34: the pool of in-use slots shrinks at the end of a sweep only if more
\* than one in-use slot went idle (the in-use count is below liveRpcs - 1
\* without wrap-around), so a sweep with liveRpcs = 0 and one in-use slot
\* leaves inUse and concurrentRPCs as they are, and the pool of a running
\* updater is never empty.
C34_ShrinkDoesNotWrap ==
    /\ [](thread /\ sweep.pc \notin {"cancel", "exited"} => inUse # <<>>)
    /\ [][AtResize =>
             /\ Len(inUse') < Len(inUse) =>
                   Len(inUse) - sweep.liveRpcs > 1
             /\ (sweep.liveRpcs = 0 /\ Len(inUse) = 1) =>
                   (inUse' = inUse /\ concurrentRPCs' = concurrentRPCs)]_vars

\* ------------------------------------------------- coordinator recovery
\* EnlistServer::complete with the id of the logged state: add, and a
\* replication group when the server is a backup.
enlistComplete(s, id, services) ==
    LET s1 == add_(s, id, services) IN
    IF isBackup(EntryOf(s1, id)) THEN createReplicationGroup(s1) ELSE s1

\* CoordinatorServerList::enlistServerRecover
EnlistServerRecover(id, services) ==
    LET s == commitUpdate(enlistComplete(CSL, id, services)) IN
    /\ Apply(s)
    /\ issued' = issued \cup {id}
    /\ lastOp' = OpRecord("enlistServerRecover", id, services, id, s,
                          Lookup(CSL, id))
    /\ UNCHANGED <<updaterVars, htVars, syncPc, removed>>

\* CoordinatorServerList::enlistedServerRecover
EnlistedServerRecover(id, services) ==
    LET s == commitUpdate(add_(CSL, id, services)) IN
    /\ Apply(s)
    /\ issued' = issued \cup {id}
    /\ lastOp' = OpRecord("enlistedServerRecover", id, services, id, s,
                          Lookup(CSL, id))
    /\ UNCHANGED <<updaterVars, htVars, syncPc, removed>>

\* CoordinatorServerList::forceServerDownRecover: ForceServerDown::complete
\* and nothing after it; getServerInfoLogId throws for an id that is not in
\* the list.
ForceServerDownRecover(id) ==
    LET s == IF iget(CSL, id) THEN forceServerDown(CSL, id)
             ELSE [CSL EXCEPT !.threw = TRUE]
    IN
    /\ Apply(s)
    /\ lastOp' = OpRecord("forceServerDownRecover", id, {}, id, s,
                          Lookup(CSL, id))
    /\ removed' = removed \cup RemovedBy(s)
    /\ UNCHANGED <<updaterVars, htVars, syncPc, issued>>

\* Servers enlist, are reported down and are removed, and the recovery entry
\* points are called with the ids and services of logged states.
RecoverServices == {{MASTER}, {BACKUP}}

NextRecover ==
    \/ \E sv \in RecoverServices :
           /\ MayCommitTo(RecoverMaxVersion)
           /\ EnlistServer(InvalidId, sv)
           /\ WithinBounds
    \/ \E id \in Present :
           MayCommitTo(RecoverMaxVersion) /\ HintServerDown(id, TRUE)
    \/ \E id \in Present : MayCommitTo(RecoverMaxVersion) /\ Remove(id)
    \/ \E id \in Ids, sv \in RecoverServices :
           MayCommitTo(RecoverMaxVersion) /\ EnlistServerRecover(id, sv)
    \/ \E id \in Ids, sv \in RecoverServices :
           MayCommitTo(RecoverMaxVersion) /\ EnlistedServerRecover(id, sv)
    \/ \E id \in Ids :
           MayCommitTo(RecoverMaxVersion) /\ ForceServerDownRecover(id)

SpecRecover == Init /\ [][NextRecover]_vars

\* ---------------------------------------------------------------- C35
\* C35: the nextGenerationNumber of a slot never decreases, whatever the
\* operation, the recovery entry points that add a logged id to a slot that
\* has issued later generations included.
C35_NextGenerationMonotonic ==
    [][\A i \in 0..(Size(CSL) - 1) :
           serverList'[i + 1].nextGenerationNumber
               >= serverList[i + 1].nextGenerationNumber]_vars

\* ---------------------------------------------------------------- C36
\* sync() and haltUpdater() called concurrently while a member enlists: the
\* updater is halted and started again.
NextStart ==
    \/ \E sv \in MemberServices :
           /\ MayCommitTo(StartMaxVersion)
           /\ EnlistServer(InvalidId, sv)
           /\ WithinBounds
    \/ UpdaterStep
    \/ TransportStep
    \/ HaltStep
    \/ SyncStep

SpecStart == InitHalt /\ [][NextStart]_vars

\* C36: when startUpdater releases the mutex, and sync goes on to wait, an
\* updater thread exists and stopUpdater is false, also when a concurrent
\* haltUpdater has set the flag and has not yet joined and destroyed the
\* thread.
C36_StartedMeansRunning ==
    [][\A t \in SyncThreads :
           (syncPc[t] # "check" /\ syncPc'[t] = "check") =>
               (thread' /\ ~stopUpdater')]_vars

\* ---------------------------------------------------------------- C37
\* One server at a time, a member or not, enlists, is reported down and is
\* removed, so that the index of a removed server is used again by the next
\* generation while an rpc to the removed server is still out; the rpcs
\* complete, fail or time out.
SlotServices == {{MASTER, MEMBERSHIP}, {MASTER}}

SlotsClientStep ==
    \/ \E sv \in SlotServices :
           /\ Present = {}
           /\ MayCommitTo(SlotsMaxVersion)
           /\ EnlistServer(InvalidId, sv)
           /\ WithinBounds
    \/ \E id \in Present :
           MayCommitTo(SlotsMaxVersion) /\ HintServerDown(id, TRUE)
    \/ \E id \in Present : MayCommitTo(SlotsMaxVersion) /\ Remove(id)

NextSlots ==
    \/ SlotsClientStep
    \/ UpdaterStep
    \/ TransportStep

SpecSlots == InitUpdater /\ [][NextSlots]_vars

\* The update slots that hold an rpc.
Busy == {k \in 1..Len(updateSlots) : updateSlots[k].rpc # <<>>}

\* C37: no two update slots hold an rpc for the same ServerId; the entry
\* loadNextUpdate selects is an UP member without an rpc (isBeingUpdated is
\* zero); and the end of an rpc, by completion, failure or timeout, for an id
\* that is no longer in the list changes no entry, also when the index of the
\* id holds a newer generation.
C37_OneRpcPerServer ==
    /\ [](\A k1, k2 \in Busy :
             updateSlots[k1].serverId = updateSlots[k2].serverId => k1 = k2)
    /\ [][\A k \in 1..Len(updateSlots) :
             (k \notin Busy /\ k <= Len(updateSlots')
                  /\ updateSlots'[k].rpc # <<>>) =>
                 \A id \in {updateSlots'[k].serverId} :
                     /\ iget(CSL, id)
                     /\ EntryOf(CSL, id).isBeingUpdated = 0
                     /\ EntryOf(CSL, id).status = UP
                     /\ MEMBERSHIP \in EntryOf(CSL, id).services]_vars
    /\ [][\A k \in Busy :
             (k <= Len(updateSlots') /\ updateSlots'[k].rpc = <<>>
                  /\ ~iget(CSL, updateSlots[k].serverId)) =>
                 serverList' = serverList]_vars

\* Reached: the updater has just ended the rpc to the removed server (1, 1)
\* while another slot holds the rpc to (1, 2), which took its index.
C37_Witness ==
    /\ sweep.pc = "load"
    /\ CurrentSlot.rpc = <<>>
    /\ <<1, 1>> \in removed
    /\ iget(CSL, <<1, 2>>)
    /\ EntryOf(CSL, <<1, 2>>).isBeingUpdated # 0
    /\ \E k \in Busy : updateSlots[k].serverId = <<1, 2>>

\* ---------------------------------------------------------------- C38
\* Members enlist, are reported down and are removed, a logged ServerDown is
\* completed by forceServerDownRecover, and the updater propagates the list.
NextMembers ==
    \/ ClientStep(MembersMaxVersion)
    \/ \E id \in Present :
           MayCommitTo(MembersMaxVersion + 1) /\ ForceServerDownRecover(id)
    \/ UpdaterStep
    \/ TransportStep

SpecMembers == InitUpdater /\ [][NextMembers]_vars

\* C38: a server that has applied in order the payloads it acknowledged, a
\* FULL_LIST and the UPDATEs that follow it up to version v, holds a list
\* whose MASTER/BACKUP entries (id, status, replication id) are those of the
\* coordinator's list right after the commit of version v; so a FULL_LIST
\* stamped v holds no change that is committed in a later version.
C38_MemberHoldsCommittedList ==
    \A id \in DOMAIN memberLists :
        \E m \in {memberLists[id]} :
            /\ m.version \in 1..Len(committedLists)
            /\ ListView(m.servers) = committedLists[m.version]

\* ---------------------------------------------------------------- C39
\* C39: whenever no operation holds the mutex the pending delta is empty:
\* every public operation that appends records to it, the recovery entry
\* points enlistServerRecover, enlistedServerRecover and
\* forceServerDownRecover included, commits them before it releases the
\* mutex.
C39_DeltaCommittedBeforeUnlock == update = <<>>

\* ---------------------------------------------------------------- C40
\* C40: a call of replace(k, r) or remove(k) changes what lookup yields for
\* at most one key, the key of the call (a key that remove takes out, that
\* replace overwrites or that replace inserts), and leaves lookup(k') as it
\* was for every other key k', whether the
\* keys share a bucket, the slot of a removed key in the middle of a chain
\* is taken again, or the insertion moves the last entry of the chain into a
\* new overflow cache line; and a chain pointer is only ever in the last
\* slot of a cache line.
C40_OtherKeysUntouched ==
    /\ [](\A cl \in 1..Len(ht.lines) : \A j \in 0..(seven - 1) :
             ~unpack(EntryAt(ht.lines[cl], j)).chain)
    /\ [][\E changed \in {{k \in Keys : lookup(ht', k) # lookup(ht, k)}} :
             /\ Cardinality(changed) <= 1
             /\ \A k \in changed :
                   \E before \in {lookup(ht, k).found},
                      after \in {lookup(ht', k).found} :
                       IF htOp'.op = "remove"
                       THEN htOp'.ret /\ before /\ ~after
                       ELSE IF htOp'.ret THEN before /\ after
                       ELSE ~before /\ after]_vars

\* Reached: in a chained table of one bucket a key was removed and then
\* inserted again, into the slot the remove had freed in the bucket's own
\* cache line, and the table holds every key it has seen.
C40_Witness ==
    /\ htOp.op = "replace"
    /\ ~htOp.ret
    /\ htOp.changes = 1
    /\ ht.numBuckets = 1
    /\ Chained(ht)
    /\ \A j \in 0..(seven - 1) : EntryAt(ht.lines[1], j) # 0
    /\ \E key \in Keys :
          /\ KeyIndex(key) > ENTRIES_PER_CACHE_LINE
          /\ \E p \in PlacesOf(ht, key) : p[1] = 1
    /\ Cardinality({key \in Keys : Holds(ht, key)}) = htOp.seen

====
